---------------------------- MODULE Spec2Model ----------------------------
(***************************************************************************)
(* A model of the analysis engine of the code-review dashboard:            *)
(* src/analysis_engine.py (pattern scanner, linter adapter, language-model *)
(* adapter, technical-debt scorer) and the analysis pass of src/app.py.    *)
(*                                                                         *)
(* A Python str is a sequence of one-character strings; a Python dict is a *)
(* function whose DOMAIN is its key set; a float is an exact rational      *)
(* <<numerator, denominator>>.                                             *)
(***************************************************************************)
EXTENDS Integers, Sequences, FiniteSets, TLC

VARIABLES
    code_content,   \* the source text handed to the function under analysis
    file_path,      \* the file path handed to it
    issues,         \* the issue list handed to calculate_tech_debt_score
    response,       \* what the language-model API answers to a request
    linters,        \* what the external linters print when they are run
    api_calls,      \* number of requests made to the language-model API
    session,        \* the dashboard's stored configuration and results
    ret,            \* the value the last call returned
    typed,          \* number of fragments the caller has put into the inputs
    pc              \* "input" while the arguments are built, then the call made

vars == <<code_content, file_path, issues, response, linters, api_calls, session, ret, typed, pc>>

(***************************************************************************)
(* Characters and strings                                                  *)
(***************************************************************************)
LowerLetters ==
    {"a","b","c","d","e","f","g","h","i","j","k","l","m",
     "n","o","p","q","r","s","t","u","v","w","x","y","z"}

UpperLetters ==
    {"A","B","C","D","E","F","G","H","I","J","K","L","M",
     "N","O","P","Q","R","S","T","U","V","W","X","Y","Z"}

Digits == {"0","1","2","3","4","5","6","7","8","9"}

\* \s of the re module (the ASCII members TLA+ can write)
Whitespace == {" ", "\t", "\n", "\r", "\f"}

\* \w of the re module
WordChars == LowerLetters \cup UpperLetters \cup Digits \cup {"_"}

Quotes == {"\"", "'"}

\* str.lower() on one character
LowerOf ==
    [c \in UpperLetters |->
        CASE c = "A" -> "a" [] c = "B" -> "b" [] c = "C" -> "c" [] c = "D" -> "d"
          [] c = "E" -> "e" [] c = "F" -> "f" [] c = "G" -> "g" [] c = "H" -> "h"
          [] c = "I" -> "i" [] c = "J" -> "j" [] c = "K" -> "k" [] c = "L" -> "l"
          [] c = "M" -> "m" [] c = "N" -> "n" [] c = "O" -> "o" [] c = "P" -> "p"
          [] c = "Q" -> "q" [] c = "R" -> "r" [] c = "S" -> "s" [] c = "T" -> "t"
          [] c = "U" -> "u" [] c = "V" -> "v" [] c = "W" -> "w" [] c = "X" -> "x"
          [] c = "Y" -> "y" [] c = "Z" -> "z"]

LowerChar(c) == IF c \in UpperLetters THEN LowerOf[c] ELSE c

\* str.lower()
Lower(s) == [i \in 1..Len(s) |-> LowerChar(s[i])]

Max(a, b) == IF a >= b THEN a ELSE b

Min(a, b) == IF a <= b THEN a ELSE b

\* s[i:] of Python, with i a 1-based position
From(s, i) == SubSeq(s, i, Len(s))

\* sub in s
Contains(s, sub) ==
    \E i \in 1..(Len(s) - Len(sub) + 1) : SubSeq(s, i, i + Len(sub) - 1) = sub

\* s.startswith(p)
StartsWith(s, p) == Len(s) >= Len(p) /\ SubSeq(s, 1, Len(p)) = p

\* s.endswith(p)
EndsWith(s, p) == Len(s) >= Len(p) /\ SubSeq(s, Len(s) - Len(p) + 1, Len(s)) = p

\* number of leading whitespace characters of s
RECURSIVE LeadingWs(_, _)
LeadingWs(s, i) ==
    IF i <= Len(s) /\ s[i] \in Whitespace THEN LeadingWs(s, i + 1) ELSE i - 1

\* number of trailing whitespace characters of s
RECURSIVE TrailingWs(_, _)
TrailingWs(s, j) ==
    IF j >= 1 /\ s[j] \in Whitespace THEN TrailingWs(s, j - 1) ELSE Len(s) - j

\* str.lstrip()
LStrip(s) == From(s, LeadingWs(s, 1) + 1)

\* str.strip()
Strip(s) ==
    LET l == LStrip(s)
    IN  SubSeq(l, 1, Len(l) - TrailingWs(l, Len(l)))

\* the members of the set S of integers in increasing order
Sorted(S) ==
    [k \in 1..Cardinality(S) |-> CHOOSE i \in S : Cardinality({j \in S : j <= i}) = k]

\* a line break starts at position i of s: "\n", "\r" or "\r\n"
BreakAt(s, i) ==
    \/ s[i] = "\r"
    \/ s[i] = "\n" /\ ~(i > 1 /\ s[i - 1] = "\r")

\* the position after the line break that starts at position i of s
AfterBreak(s, i) ==
    IF s[i] = "\r" /\ i < Len(s) /\ s[i + 1] = "\n" THEN i + 2 ELSE i + 1

\* str.splitlines(): a line ends at a line break; the text after the last
\* line break is a line only when it is not empty
splitlines(s) ==
    LET start(brk, k) == IF k = 1 THEN 1 ELSE AfterBreak(s, brk[k - 1])
        Count(brk) ==
            IF start(brk, Len(brk) + 1) <= Len(s) THEN Len(brk) + 1 ELSE Len(brk)
    IN  CHOOSE lines \in
            { [k \in 1..Count(brk) |->
                  SubSeq(s, start(brk, k),
                         IF k <= Len(brk) THEN brk[k] - 1 ELSE Len(s))] :
              brk \in {Sorted({i \in 1..Len(s) : BreakAt(s, i)})} } : TRUE

\* ' '.join(lines)
RECURSIVE JoinSpace(_)
JoinSpace(lines) ==
    IF lines = <<>> THEN <<>>
    ELSE IF Len(lines) = 1 THEN lines[1]
         ELSE lines[1] \o <<" ">> \o JoinSpace(Tail(lines))

\* os.path.splitext: <<root, ext>>; the extension starts at the last dot of
\* the last path component, unless that component has only leading dots
LastIndexOf(s, c) ==
    LET hits == {i \in 1..Len(s) : s[i] = c}
    IN  IF hits = {} THEN 0 ELSE CHOOSE i \in hits : \A j \in hits : j <= i

splitext(p) ==
    LET sep == LastIndexOf(p, "/")
        dot == LastIndexOf(p, ".")
    IN  IF dot > sep /\ \E k \in (sep + 1)..(dot - 1) : p[k] # "."
        THEN <<SubSeq(p, 1, dot - 1), From(p, dot)>>
        ELSE <<p, <<>> >>

\* dict.get(key, default)
Get(d, key, default) == IF key \in DOMAIN d THEN d[key] ELSE default

(***************************************************************************)
(* The re module: a pattern is a tree of nodes                             *)
(*   [t |-> "lit", w]        the characters of w                           *)
(*   [t |-> "set", s, neg]   one character in (neg: not in) the class s    *)
(*   [t |-> "seq", rs]       the patterns of rs one after the other        *)
(*   [t |-> "alt", rs]       one of the patterns of rs                     *)
(*   [t |-> "star", r]       r zero or more times                          *)
(*   [t |-> "bol"]           ^ (without MULTILINE: the start of the text)  *)
(*   [t |-> "wb"]            \b                                            *)
(* Ends(re, s, i) is the set of positions j such that re matches           *)
(* s[i..j-1].  Under re.IGNORECASE the literals of the pattern and the     *)
(* text are both compared in lower case; no pattern of the program puts    *)
(* letters in a class under IGNORECASE, so a class is compared as written. *)
(***************************************************************************)
Lit(w) == [t |-> "lit", w |-> w]

In(s) == [t |-> "set", s |-> s, neg |-> FALSE]

NotIn(s) == [t |-> "set", s |-> s, neg |-> TRUE]

Cat(rs) == [t |-> "seq", rs |-> rs]

Alt(rs) == [t |-> "alt", rs |-> rs]

Star(r) == [t |-> "star", r |-> r]

Plus(r) == Cat(<<r, Star(r)>>)

Bol == [t |-> "bol"]

WordBoundary == [t |-> "wb"]

\* the pattern with its literals in lower case
RECURSIVE LowerPattern(_)
LowerPattern(re) ==
    CASE re.t = "lit" -> Lit(Lower(re.w))
      [] re.t \in {"seq", "alt"} ->
            [t |-> re.t, rs |-> [k \in DOMAIN re.rs |-> LowerPattern(re.rs[k])]]
      [] re.t = "star" -> Star(LowerPattern(re.r))
      [] OTHER -> re

\* re.compile(pattern, flags): flags is re.IGNORECASE or nothing
re_compile(re, ignorecase) ==
    [re |-> IF ignorecase THEN LowerPattern(re) ELSE re, ic |-> ignorecase]

IsWordAt(s, i) == i >= 1 /\ i <= Len(s) /\ s[i] \in WordChars

RECURSIVE Ends(_, _, _)
RECURSIVE SeqEnds(_, _, _, _)
RECURSIVE StarEnds(_, _, _, _)

Ends(re, s, i) ==
    CASE re.t = "lit" ->
            IF /\ i + Len(re.w) - 1 <= Len(s)
               /\ \A k \in 1..Len(re.w) : s[i + k - 1] = re.w[k]
            THEN {i + Len(re.w)} ELSE {}
      [] re.t = "set" ->
            IF i <= Len(s) /\ ((s[i] \in re.s) # re.neg) THEN {i + 1} ELSE {}
      [] re.t = "seq" -> SeqEnds(re.rs, 1, s, {i})
      [] re.t = "alt" -> UNION {Ends(re.rs[k], s, i) : k \in DOMAIN re.rs}
      [] re.t = "star" -> StarEnds(re.r, s, {i}, {i})
      [] re.t = "bol" -> IF i = 1 THEN {i} ELSE {}
      [] re.t = "wb" -> IF IsWordAt(s, i - 1) # IsWordAt(s, i) THEN {i} ELSE {}

SeqEnds(rs, k, s, at) ==
    IF k > Len(rs) \/ at = {} THEN at
    ELSE SeqEnds(rs, k + 1, s, UNION {Ends(rs[k], s, i) : i \in at})

StarEnds(r, s, frontier, acc) ==
    LET step == UNION {Ends(r, s, i) : i \in frontier} \ acc
    IN  IF step = {} THEN acc ELSE StarEnds(r, s, step, acc \cup step)

\* the text as the compiled pattern p compares it
Subject(p, s) == IF p.ic THEN Lower(s) ELSE s

\* the positions at which a match of the pattern tree re starts in t
StartsIn(re, t) == {i \in 1..(Len(t) + 1) : Ends(re, t, i) # {}}

\* the positions at which a match of p starts in s
MatchStarts(p, s) == StartsIn(p.re, Subject(p, s))

\* p.match(s) is not None
re_match(p, s) == Ends(p.re, Subject(p, s), 1) # {}

FoundIn(re, t) == \E i \in 1..(Len(t) + 1) : Ends(re, t, i) # {}

\* p.search(s) is not None
re_search(p, s) == FoundIn(p.re, Subject(p, s))

(***************************************************************************)
(* basic_pattern_analysis                                                  *)
(***************************************************************************)
max_line_length == 100

\* (TODO|FIXME) without the word boundaries
todo_pattern_anywhere ==
  re_compile(Alt(<<Lit(<<"T","O","D","O">>), Lit(<<"F","I","X","M","E">>)>>), TRUE)

\* r'\b(TODO|FIXME)\b', re.IGNORECASE
todo_pattern ==
    re_compile(
        Cat(<<WordBoundary,
              Alt(<<Lit(<<"T","O","D","O">>), Lit(<<"F","I","X","M","E">>)>>),
              WordBoundary>>),
        TRUE)

\* the pattern with =+ for =: it also matches a comparison
credential_pattern_any_equals ==
  re_compile(
    Cat(<<Alt(<<Lit(<<"p","a","s","s","w","o","r","d">>),
                Lit(<<"s","e","c","r","e","t">>),
                Lit(<<"k","e","y">>),
                Lit(<<"t","o","k","e","n">>)>>),
          Star(In(Whitespace)),
          Plus(Lit(<<"=">>)),
          Star(In(Whitespace)),
          In(Quotes),
          Plus(NotIn(Quotes)),
          In(Quotes)>>),
    TRUE)

\* r'(password|secret|key|token)\s*=\s*["\'][^"\']+["\']', re.IGNORECASE
credential_pattern ==
  re_compile(
    Cat(<<Alt(<<Lit(<<"p","a","s","s","w","o","r","d">>),
                Lit(<<"s","e","c","r","e","t">>),
                Lit(<<"k","e","y">>),
                Lit(<<"t","o","k","e","n">>)>>),
          Star(In(Whitespace)),
          Lit(<<"=">>),
          Star(In(Whitespace)),
          In(Quotes),
          Plus(NotIn(Quotes)),
          In(Quotes)>>),
    TRUE)

\* r'catch\s*\([^)]*\)\s*{\s*}'
empty_catch_pattern ==
  re_compile(
    Cat(<<Lit(<<"c","a","t","c","h">>),
          Star(In(Whitespace)),
          Lit(<<"(">>),
          Star(NotIn({")"})),
          Lit(<<")">>),
          Star(In(Whitespace)),
          Lit(<<"{">>),
          Star(In(Whitespace)),
          Lit(<<"}">>)>>),
    FALSE)

\* the file extensions of the empty-catch check
catch_extensions ==
    { <<".","p","y">>, <<".","j","s">>, <<".","j","s","x">>, <<".","t","s">>,
      <<".","t","s","x">>, <<".","j","a","v","a">> }

\* the positions, in increasing order, at which the sequence flags is TRUE
RECURSIVE TruePositions(_, _)
TruePositions(flags, i) ==
    IF i > Len(flags) THEN <<>>
    ELSE (IF flags[i] THEN <<i>> ELSE <<>>) \o TruePositions(flags, i + 1)

\* the numbers, in increasing order, of the lines for which a check's
\* condition holds: flags[i] is the condition on line i
HitLines(flags) == TruePositions(flags, 1)

\* the comparison with >= for >
LineLengthHit_at_limit(line) == Len(line) >= max_line_length

LineLengthHit(line) == Len(line) > max_line_length

LineLengthIssue(i, line) ==
    [line |-> i, column |-> max_line_length + 1,
     message |-> "Line too long (" \o ToString(Len(line)) \o "/"
                 \o ToString(max_line_length) \o ")",
     severity |-> "info", rule |-> "line-length"]

LineLengthIssues(lines) ==
    CHOOSE found \in
        { [k \in 1..Len(hit) |-> LineLengthIssue(hit[k], lines[hit[k]])] :
            hit \in {HitLines([i \in 1..Len(lines) |-> LineLengthHit(lines[i])])} } : TRUE

TodoHit(line) == re_search(todo_pattern, line)

TodoIssue(i, line) ==
    [line |-> i, column |-> 1, message |-> "TODO or FIXME comment found",
     severity |-> "info", rule |-> "todo-comment"]

TodoIssues(lines) ==
    CHOOSE found \in
        { [k \in 1..Len(hit) |-> TodoIssue(hit[k], lines[hit[k]])] :
            hit \in {HitLines([i \in 1..Len(lines) |-> TodoHit(lines[i])])} } : TRUE

CredentialHit(line) == re_search(credential_pattern, line)

CredentialIssue(i, line) ==
    [line |-> i, column |-> 1, message |-> "Possible hardcoded credential found",
     severity |-> "error", rule |-> "hardcoded-credential"]

CredentialIssues(lines) ==
    CHOOSE found \in
        { [k \in 1..Len(hit) |-> CredentialIssue(hit[k], lines[hit[k]])] :
            hit \in {HitLines([i \in 1..Len(lines) |-> CredentialHit(lines[i])])} } : TRUE

\* the check made on each line by itself
EmptyCatchIssues_per_line(lines, file_extension) ==
    IF /\ file_extension \in catch_extensions
       /\ \E n \in DOMAIN lines : re_search(empty_catch_pattern, lines[n])
    THEN << [line |-> 1, column |-> 1, message |-> "Empty catch block found",
             severity |-> "warning", rule |-> "empty-catch"] >>
    ELSE <<>>

EmptyCatchIssues(lines, file_extension) ==
    IF /\ file_extension \in catch_extensions
       /\ re_search(empty_catch_pattern, JoinSpace(lines))
    THEN << [line |-> 1, column |-> 1, message |-> "Empty catch block found",
             severity |-> "warning", rule |-> "empty-catch"] >>
    ELSE <<>>

\* (The value of a step of the function is bound by a one-element set, which
\* makes TLC compute it once.)
basic_pattern_analysis(content, file_extension) ==
    CHOOSE found \in
        { LineLengthIssues(lines)
          \o TodoIssues(lines)
          \o CredentialIssues(lines)
          \o EmptyCatchIssues(lines, file_extension) :
            lines \in {splitlines(content)} } : TRUE

(***************************************************************************)
(* Floats as exact rationals <<numerator, denominator>> in lowest terms    *)
(***************************************************************************)
RECURSIVE Gcd(_, _)
Gcd(a, b) == IF b = 0 THEN a ELSE Gcd(b, a % b)

Abs(n) == IF n < 0 THEN -n ELSE n

Norm(n, d) ==
    LET g == Gcd(Abs(n), Abs(d))
        sgn == IF d < 0 THEN -1 ELSE 1
    IN  <<sgn * (n \div g), sgn * (d \div g)>>

R(n) == <<n, 1>>

RAdd(a, b) == Norm(a[1] * b[2] + b[1] * a[2], a[2] * b[2])

RSub(a, b) == Norm(a[1] * b[2] - b[1] * a[2], a[2] * b[2])

RMul(a, b) == Norm(a[1] * b[1], a[2] * b[2])

RDiv(a, b) == Norm(a[1] * b[2], a[2] * b[1])

RLe(a, b) == a[1] * b[2] <= b[1] * a[2]

RMin(a, b) == IF RLe(a, b) THEN a ELSE b

(***************************************************************************)
(* calculate_tech_debt_score                                               *)
(***************************************************************************)
\* dict.get(key) without a default
None == "<None>"

\* r'^\s*(def|function|class|interface)\s+\w+'
declaration_pattern ==
  re_compile(
    Cat(<<Bol,
          Star(In(Whitespace)),
          Alt(<<Lit(<<"d","e","f">>),
                Lit(<<"f","u","n","c","t","i","o","n">>),
                Lit(<<"c","l","a","s","s">>),
                Lit(<<"i","n","t","e","r","f","a","c","e">>)>>),
          Plus(In(Whitespace)),
          Plus(In(WordChars))>>),
    FALSE)

\* r'^\s*return\s'
return_pattern ==
  re_compile(
    Cat(<<Bol, Star(In(Whitespace)), Lit(<<"r","e","t","u","r","n">>),
          In(Whitespace)>>),
    FALSE)

\* the loop's step with function_lines running on over every region
ComplexityStep_cumulative(st, line) ==
    LET stripped == LStrip(line)
        indent == IF stripped # <<>>
                  THEN Max(st.max_indentation, Len(line) - Len(stripped))
                  ELSE st.max_indentation
    IN  IF re_match(declaration_pattern, line)
        THEN [max_indentation |-> indent, function_lines |-> st.function_lines + 1,
              in_function |-> TRUE, function_count |-> st.function_count + 1]
        ELSE IF st.in_function
             THEN [max_indentation |-> indent,
                   function_lines |-> st.function_lines + 1,
                   in_function |-> ~(\/ Strip(line) = <<"}">>
                                     \/ re_match(return_pattern, line)),
                   function_count |-> st.function_count]
             ELSE [st EXCEPT !.max_indentation = indent]

\* one pass of the loop over the lines: st is the loop's variables before
\* the line
ComplexityStep(st, line) ==
    LET stripped == LStrip(line)
        indent == IF stripped # <<>>
                  THEN Max(st.max_indentation, Len(line) - Len(stripped))
                  ELSE st.max_indentation
    IN  IF re_match(declaration_pattern, line)
        THEN [max_indentation |-> indent, function_lines |-> 1,
              in_function |-> TRUE, function_count |-> st.function_count + 1]
        ELSE IF st.in_function
             THEN [max_indentation |-> indent,
                   function_lines |-> st.function_lines + 1,
                   in_function |-> ~(\/ Strip(line) = <<"}">>
                                     \/ re_match(return_pattern, line)),
                   function_count |-> st.function_count]
             ELSE [st EXCEPT !.max_indentation = indent]

RECURSIVE ComplexityLoop(_, _, _)
ComplexityLoop(lines, i, st) ==
    IF i > Len(lines) THEN st
    ELSE ComplexityLoop(lines, i + 1, ComplexityStep(st, lines[i]))

ComplexityScore(lines) ==
    LET st == ComplexityLoop(lines, 1,
                  [max_indentation |-> 0, function_lines |-> 0,
                   in_function |-> FALSE, function_count |-> 0])
        avg_indentation == RDiv(R(st.max_indentation), R(4))
    IN  RMin(R(100),
             RAdd(RMul(avg_indentation, R(20)),
                  RDiv(RDiv(R(st.function_lines), R(Max(1, st.function_count))),
                       R(5))))

\* the loop over the lines: line_hash is the set of keys of the dict
RECURSIVE DuplicateLoop(_, _, _, _)
DuplicateLoop(lines, i, line_hash, duplicate_count) ==
    IF i > Len(lines) THEN duplicate_count
    ELSE LET line_stripped == Strip(lines[i])
         IN  IF Len(line_stripped) > 10
             THEN IF line_stripped \in line_hash
                  THEN DuplicateLoop(lines, i + 1, line_hash, duplicate_count + 1)
                  ELSE DuplicateLoop(lines, i + 1,
                                     line_hash \cup {line_stripped}, duplicate_count)
             ELSE DuplicateLoop(lines, i + 1, line_hash, duplicate_count)

\* the score with the lines compared as they are, not trimmed
DuplicationScore_untrimmed(lines) ==
    RMin(R(100),
         RMul(RDiv(R(Cardinality({n \in DOMAIN lines :
                                     /\ Len(Strip(lines[n])) > 10
                                     /\ \E m \in 1..(n - 1) : lines[m] = lines[n]})),
                   R(Max(1, Len(lines)))),
              R(200)))

DuplicationScore(lines) ==
    RMin(R(100),
         RMul(RDiv(R(DuplicateLoop(lines, 1, {}, 0)), R(Max(1, Len(lines)))),
              R(200)))

IsCommentLine(line) ==
    LET line_stripped == Strip(line)
    IN  \/ StartsWith(line_stripped, <<"#">>)
        \/ StartsWith(line_stripped, <<"/", "/">>)
        \/ StartsWith(line_stripped, <<"/", "*">>)

IsDocstringLine(line) ==
    LET line_stripped == Strip(line)
    IN  \/ StartsWith(line_stripped, <<"\"", "\"", "\"">>)
        \/ StartsWith(line_stripped, <<"'", "'", "'">>)

\* the score reduced once for every docstring line
DocumentationScore_per_docstring(lines) ==
    LET comment_lines == Cardinality({i \in 1..Len(lines) : IsCommentLine(lines[i])})
        docstrings == Cardinality({i \in 1..Len(lines) : IsDocstringLine(lines[i])})
        comment_ratio == RDiv(R(comment_lines), R(Max(1, Len(lines))))
        documentation_score == RMin(R(100), RMul(RSub(R(1), comment_ratio), R(100)))
    IN  IF docstrings = 0 THEN documentation_score
        ELSE IF docstrings = 1 THEN RMul(documentation_score, <<7, 10>>)
        ELSE RMul(RMul(documentation_score, <<7, 10>>), <<7, 10>>)

DocumentationScore(lines) ==
    LET comment_lines == Cardinality({i \in 1..Len(lines) : IsCommentLine(lines[i])})
        has_docstring == \E i \in 1..Len(lines) : IsDocstringLine(lines[i])
        comment_ratio == RDiv(R(comment_lines), R(Max(1, Len(lines))))
        documentation_score == RMin(R(100), RMul(RSub(R(1), comment_ratio), R(100)))
    IN  IF has_docstring
        THEN RMul(documentation_score, <<7, 10>>)
        ELSE documentation_score

\* sum(1 for issue in issues if issue.get("severity") == severity)
SeverityCount(issue_list, severity) ==
    Cardinality({k \in DOMAIN issue_list :
                    Get(issue_list[k], "severity", None) = severity})

\* the score with the weighted count divided by the number of issues too
CodeSmellsScore_per_issue(lines, issue_list) ==
    RMin(R(100),
         RMul(RDiv(R(SeverityCount(issue_list, "error") * 5
                     + SeverityCount(issue_list, "warning") * 2
                     + SeverityCount(issue_list, "info")),
                   R(Max(1, Len(lines)) * Max(1, Len(issue_list)))),
              R(100)))

\* the score without min(100, ...)
CodeSmellsScore_unclamped(lines, issue_list) ==
    RMul(RDiv(R(SeverityCount(issue_list, "error") * 5
                + SeverityCount(issue_list, "warning") * 2
                + SeverityCount(issue_list, "info")),
              R(Max(1, Len(lines)))),
         R(100))

\* the score with every counted issue weighing 1
CodeSmellsScore_unweighted(lines, issue_list) ==
    RMin(R(100),
         RMul(RDiv(R(SeverityCount(issue_list, "error")
                     + SeverityCount(issue_list, "warning")
                     + SeverityCount(issue_list, "info")),
                   R(Max(1, Len(lines)))),
              R(100)))

CodeSmellsScore(lines, issue_list) ==
    LET error_count == SeverityCount(issue_list, "error")
        warning_count == SeverityCount(issue_list, "warning")
        info_count == SeverityCount(issue_list, "info")
        weighted_issues ==
            RMul(RDiv(R(error_count * 5 + warning_count * 2 + info_count),
                      R(Max(1, Len(lines)))),
                 R(100))
    IN  RMin(R(100), weighted_issues)

test_frameworks ==
    { <<"u","n","i","t","t","e","s","t">>, <<"p","y","t","e","s","t">>,
      <<"j","e","s","t">>, <<"m","o","c","h","a">>, <<"t","e","s","t">> }

\* the heuristic comparing the path and the text as written
TestCoverageScore_as_written(content, path) ==
    IF \/ Contains(path, <<"t","e","s","t">>)
       \/ Contains(path, <<"s","p","e","c">>)
    THEN R(0)
    ELSE IF \E framework \in test_frameworks : Contains(content, framework)
         THEN R(30)
         ELSE R(50)

TestCoverageScore(content, path) ==
    IF \/ Contains(Lower(path), <<"t","e","s","t">>)
       \/ Contains(Lower(path), <<"s","p","e","c">>)
    THEN R(0)
    ELSE IF \E framework \in test_frameworks : Contains(Lower(content), framework)
         THEN R(30)
         ELSE R(50)

\* the weights with those of complexity and duplication exchanged
weights_exchanged ==
    [complexity |-> <<20, 100>>, duplication |-> <<25, 100>>,
     documentation |-> <<15, 100>>, code_smells |-> <<25, 100>>,
     test_coverage |-> <<15, 100>>]

weights ==
    [complexity |-> <<25, 100>>, duplication |-> <<20, 100>>,
     documentation |-> <<15, 100>>, code_smells |-> <<25, 100>>,
     test_coverage |-> <<15, 100>>]

Categories ==
    <<"complexity", "duplication", "documentation", "code_smells", "test_coverage">>

\* sum(debt_details[key] * weights[key] for key in weights)
RECURSIVE WeightedSum(_, _, _)
WeightedSum(debt_details, w, k) ==
    IF k > Len(Categories) THEN R(0)
    ELSE RAdd(RMul(debt_details[Categories[k]], w[Categories[k]]),
              WeightedSum(debt_details, w, k + 1))

\* the function from "Calculate complexity score" on: the lines are counted
\* and every category is computed.  (The value of each step is bound by a
\* one-element set, which makes TLC compute it once.)
ScoreLines(content, path, issue_list) ==
    LET Details(lines) ==
            [complexity |-> ComplexityScore(lines),
             duplication |-> DuplicationScore(lines),
             documentation |-> DocumentationScore(lines),
             code_smells |-> CodeSmellsScore(lines, issue_list),
             test_coverage |-> TestCoverageScore(content, path)]
        Result(debt_details) ==
            [overall |-> WeightedSum(debt_details, weights, 1),
             details |-> debt_details]
    IN  CHOOSE r \in {Result(d) : d \in {Details(l) : l \in {splitlines(content)}}} :
            TRUE

\* the function without "Skip empty files"
calculate_tech_debt_score_no_skip(content, path, issue_list) ==
    ScoreLines(content, path, issue_list)

calculate_tech_debt_score(content, path, issue_list) ==
    IF Len(splitlines(content)) = 0
    THEN [overall |-> R(0),
          details |-> [complexity |-> R(0), duplication |-> R(0),
                       documentation |-> R(0), code_smells |-> R(0),
                       test_coverage |-> R(0)]]
    ELSE ScoreLines(content, path, issue_list)

(***************************************************************************)
(* json.loads.  A parsed value carries its Python type: a list holds       *)
(* parsed values, a dict maps each key to the plain value of its member    *)
(* (a string, an integer, None, a boolean, the items of a list or the      *)
(* members of a dict).  The texts the model builds hold objects, arrays,   *)
(* strings without escapes, integers and the three literals; fractions,    *)
(* exponents, escapes and NaN/Infinity do not occur in them.               *)
(***************************************************************************)
JList(items) == [type |-> "list", v |-> items]

JDict(members) == [type |-> "dict", v |-> members]

JStr(w) == [type |-> "str", v |-> w]

JInt(n) == [type |-> "int", v |-> n]

JBool(b) == [type |-> "bool", v |-> b]

JNone == [type |-> "NoneType", v |-> None]

JSONDecodeError == [ok |-> FALSE]

Parsed(value, next) == [ok |-> TRUE, value |-> value, next |-> next]

\* json.decoder.WHITESPACE
JsonWhitespace == {" ", "\t", "\n", "\r"}

\* characters a JSON string may not hold unescaped
ControlChars == {"\t", "\n", "\r", "\f"}

RECURSIVE SkipWs(_, _)
SkipWs(s, i) ==
    IF i <= Len(s) /\ s[i] \in JsonWhitespace THEN SkipWs(s, i + 1) ELSE i

\* the character at i, "" past the end
Peek(s, i) == IF i <= Len(s) THEN s[i] ELSE ""

\* a Python str of the characters cs
RECURSIVE Join(_)
Join(cs) == IF cs = <<>> THEN "" ELSE cs[1] \o Join(Tail(cs))

DigitValue ==
    [c \in Digits |->
        CASE c = "0" -> 0 [] c = "1" -> 1 [] c = "2" -> 2 [] c = "3" -> 3
          [] c = "4" -> 4 [] c = "5" -> 5 [] c = "6" -> 6 [] c = "7" -> 7
          [] c = "8" -> 8 [] c = "9" -> 9]

\* the end of the run of digits that starts at i
RECURSIVE DigitsEnd(_, _)
DigitsEnd(s, i) ==
    IF i <= Len(s) /\ s[i] \in Digits THEN DigitsEnd(s, i + 1) ELSE i

RECURSIVE ToInt(_, _, _, _)
ToInt(s, i, j, acc) ==
    IF i >= j THEN acc ELSE ToInt(s, i + 1, j, 10 * acc + DigitValue[s[i]])

\* py_scanstring from the opening quote at i
ParseString(s, i) ==
    LET closes == {j \in (i + 1)..Len(s) : s[j] = "\""}
    IN  IF closes = {} THEN JSONDecodeError
        ELSE LET j == CHOOSE c \in closes : \A d \in closes : c <= d
             IN  IF \E k \in (i + 1)..(j - 1) : s[k] \in ControlChars \cup {"\\"}
                 THEN JSONDecodeError
                 ELSE Parsed(JStr(Join(SubSeq(s, i + 1, j - 1))), j + 1)

\* NUMBER_RE, integer part: -?(0|[1-9]\d*), from the digit at i
ParseDigits(s, i, sign) ==
    IF Peek(s, i) \notin Digits THEN JSONDecodeError
    ELSE IF s[i] = "0" THEN Parsed(JInt(0), i + 1)
    ELSE Parsed(JInt(sign * ToInt(s, i, DigitsEnd(s, i), 0)), DigitsEnd(s, i))

ParseNumber(s, i) ==
    IF s[i] = "-" THEN ParseDigits(s, i + 1, -1) ELSE ParseDigits(s, i, 1)

\* the literal w at i
ParseLiteral(s, i, w, value) ==
    IF Ends(Lit(w), s, i) # {} THEN Parsed(value, i + Len(w)) ELSE JSONDecodeError

RECURSIVE ParseValue(_, _)
RECURSIVE ParseItems(_, _, _)
RECURSIVE AfterItem(_, _, _)
RECURSIVE ParseMembers(_, _, _)
RECURSIVE ParseMember(_, _, _, _)
RECURSIVE AfterMember(_, _, _)

\* scanner.py_make_scanner._scan_once at i
ParseValue(s, i) ==
    CASE Peek(s, i) = "\"" -> ParseString(s, i)
      [] Peek(s, i) = "{" ->
            IF Peek(s, SkipWs(s, i + 1)) = "}"
            THEN Parsed(JDict(<<>>), SkipWs(s, i + 1) + 1)
            ELSE ParseMembers(s, SkipWs(s, i + 1), <<>>)
      [] Peek(s, i) = "[" ->
            IF Peek(s, SkipWs(s, i + 1)) = "]"
            THEN Parsed(JList(<<>>), SkipWs(s, i + 1) + 1)
            ELSE ParseItems(s, SkipWs(s, i + 1), <<>>)
      [] Peek(s, i) = "n" -> ParseLiteral(s, i, <<"n", "u", "l", "l">>, JNone)
      [] Peek(s, i) = "t" -> ParseLiteral(s, i, <<"t", "r", "u", "e">>, JBool(TRUE))
      [] Peek(s, i) = "f" ->
            ParseLiteral(s, i, <<"f", "a", "l", "s", "e">>, JBool(FALSE))
      [] Peek(s, i) \in Digits \cup {"-"} -> ParseNumber(s, i)
      [] OTHER -> JSONDecodeError

\* decoder.JSONArray: the items from i on, acc the items before
ParseItems(s, i, acc) ==
    CHOOSE out \in { IF r.ok
                     THEN AfterItem(s, SkipWs(s, r.next), Append(acc, r.value))
                     ELSE JSONDecodeError : r \in {ParseValue(s, i)} } : TRUE

AfterItem(s, j, acc) ==
    CASE Peek(s, j) = "]" -> Parsed(JList(acc), j + 1)
      [] Peek(s, j) = "," -> ParseItems(s, SkipWs(s, j + 1), acc)
      [] OTHER -> JSONDecodeError

\* decoder.JSONObject: the members from i on, acc the members before
ParseMembers(s, i, acc) ==
    IF Peek(s, i) # "\"" THEN JSONDecodeError
    ELSE CHOOSE out \in
            { IF k.ok /\ Peek(s, SkipWs(s, k.next)) = ":"
              THEN ParseMember(s, k.value.v, SkipWs(s, SkipWs(s, k.next) + 1), acc)
              ELSE JSONDecodeError : k \in {ParseString(s, i)} } : TRUE

\* the value of the member key; a repeated key keeps its last value
ParseMember(s, key, i, acc) ==
    CHOOSE out \in
        { IF r.ok
          THEN AfterMember(s, SkipWs(s, r.next),
                           [k \in DOMAIN acc \cup {key} |->
                               IF k = key THEN r.value.v ELSE acc[k]])
          ELSE JSONDecodeError : r \in {ParseValue(s, i)} } : TRUE

AfterMember(s, j, acc) ==
    CASE Peek(s, j) = "}" -> Parsed(JDict(acc), j + 1)
      [] Peek(s, j) = "," -> ParseMembers(s, SkipWs(s, j + 1), acc)
      [] OTHER -> JSONDecodeError

\* json.loads(s): one value between whitespace, nothing after it
json_loads(s) ==
    CHOOSE out \in { IF r.ok /\ SkipWs(s, r.next) > Len(s) THEN r
                     ELSE JSONDecodeError : r \in {ParseValue(s, SkipWs(s, 1))} } : TRUE

(***************************************************************************)
(* run_llm_analysis.  The answer of the API is the variable response:      *)
(*   [kind |-> "raise"]  requests.post raises                              *)
(*   [kind |-> "http", status_code, has_content, content]  it returns;     *)
(*       has_content is FALSE when the body is not JSON or has no          *)
(*       choices[0].message.content, and content is that string otherwise  *)
(* The outcome of a block of statements is the exception it raises, or     *)
(* "none" and the value it returns.                                        *)
(***************************************************************************)
llm_size_limit == 10000

Return(value) == [exc |-> "none", value |-> value]

Raise(exc) == [exc |-> exc, value |-> JNone]

\* the exceptions the statements of the model raise, all of them subclasses
\* of Exception
Exceptions ==
    {"ConnectionError", "KeyError", "JSONDecodeError", "TypeError", "AttributeError"}

TooLarge_at_limit(content) == Len(content) >= llm_size_limit

\* len(code_content) > 10000
TooLarge(content) == Len(content) > llm_size_limit

too_large_issue ==
    [line |-> 1,
     message |-> "File too large for LLM analysis",
     severity |-> "info",
     fix |-> "Consider breaking the file into smaller modules"]

\* \[\s*{[^]]*}\s*\]
json_array_pattern ==
    re_compile(Cat(<< Lit(<<"[">>), Star(In(Whitespace)), Lit(<<"{">>),
                      Star(NotIn({"]"})), Lit(<<"}">>), Star(In(Whitespace)),
                      Lit(<<"]">>) >>), FALSE)

\* re.search(...): whether the pattern matches and the match's group(0), the
\* leftmost match, which ends at the first "]" after its start
json_match(content) ==
    LET starts == MatchStarts(json_array_pattern, content)
    IN  IF starts = {} THEN [found |-> FALSE, group |-> <<>>]
        ELSE LET i == CHOOSE a \in starts : \A b \in starts : a <= b
                 ends == Ends(json_array_pattern.re, content, i)
                 j == CHOOSE a \in ends : \A b \in ends : a >= b
             IN  [found |-> TRUE, group |-> SubSeq(content, i, j - 1)]

\* issues_json
issues_json(content) ==
    CHOOSE out \in { IF m.found THEN m.group ELSE content
                     : m \in {json_match(content)} } : TRUE

\* the inner try: json.loads and its except json.JSONDecodeError
parse_issues(text) ==
    CHOOSE out \in { IF r.ok THEN Return(r.value) ELSE Return(JList(<<>>))
                     : r \in {json_loads(text)} } : TRUE

\* the statements of the outer try
llm_request(resp) ==
    IF resp.kind = "raise" THEN Raise("ConnectionError")
    ELSE IF resp.status_code # 200 THEN Return(JList(<<>>))
    ELSE IF ~resp.has_content THEN Raise("KeyError")
    ELSE parse_issues(issues_json(resp.content))

\* the outer try with its except Exception
llm_request_guarded(resp) ==
    CHOOSE out \in { IF r.exc \in Exceptions THEN Return(JList(<<>>)) ELSE r
                     : r \in {llm_request(resp)} } : TRUE

\* requests is the number of requests made to the API
run_llm_analysis(content, path, resp) ==
    IF TooLarge(content)
    THEN [requests |-> 0] @@ Return(JList(<<JDict(too_large_issue)>>))
    ELSE [requests |-> 1] @@ llm_request_guarded(resp)

(***************************************************************************)
(* run_static_analysis.  What a linter prints is the variable linters, one *)
(* field per tool:                                                         *)
(*   [stdout |-> "empty"]  nothing on stdout                               *)
(*   [stdout |-> "raise"]  subprocess.run or json.loads raises             *)
(*   [stdout |-> "json", items]  the parsed output, a sequence of parsed   *)
(*       values: pylint's records, the values of flake8's dict, ESLint's   *)
(*       file results                                                      *)
(* A loop over the output carries st = [issues, exc]: the issues appended  *)
(* so far and the exception that ended it, which the tool's except         *)
(* Exception then swallows, keeping the issues appended before.            *)
(***************************************************************************)
Silent == [stdout |-> "empty", items |-> <<>>]

Failing == [stdout |-> "raise", items |-> <<>>]

Printed(items) == [stdout |-> "json", items |-> items]

map_pylint_severity_else_warning(pylint_type) ==
    IF pylint_type \in {"error", "fatal"} THEN "error" ELSE "warning"

\* the mapping with refactor among the other types
map_pylint_severity_refactor_info(pylint_type) ==
    IF pylint_type \in {"error", "fatal"} THEN "error"
    ELSE IF pylint_type \in {"warning"} THEN "warning"
    ELSE "info"

map_pylint_severity(pylint_type) ==
    IF pylint_type \in {"error", "fatal"} THEN "error"
    ELSE IF pylint_type \in {"warning", "refactor"} THEN "warning"
    ELSE "info"

pylint_issue(issue) ==
    [line |-> Get(issue, "line", 0),
     column |-> Get(issue, "column", 0),
     message |-> Get(issue, "message", ""),
     severity |-> map_pylint_severity(Get(issue, "type", "")),
     rule |-> Get(issue, "symbol", "")]

flake8_issue(issue) ==
    [line |-> Get(issue, "line_number", 0),
     column |-> Get(issue, "column_number", 0),
     message |-> Get(issue, "text", ""),
     severity |-> "warning",
     rule |-> Get(issue, "code", "")]

\* the ESLint issue with a missing line read as the first line
eslint_issue_first_line(message) ==
    [line |-> Get(message, "line", 1),
     column |-> Get(message, "column", 0),
     message |-> Get(message, "message", ""),
     severity |-> IF Get(message, "severity", 1) = 2 THEN "error" ELSE "warning",
     rule |-> Get(message, "ruleId", "")]

eslint_issue(message) ==
    [line |-> Get(message, "line", 0),
     column |-> Get(message, "column", 0),
     message |-> Get(message, "message", ""),
     severity |-> IF Get(message, "severity", 1) = 2 THEN "error" ELSE "warning",
     rule |-> Get(message, "ruleId", "")]

\* the attribute lookup .get on a value that is not a dict
Raised(st, exc) == [st EXCEPT !.exc = exc]

RECURSIVE pylint_loop(_, _)
pylint_loop(items, st) ==
    IF items = <<>> THEN st
    ELSE IF Head(items).type # "dict" THEN Raised(st, "AttributeError")
    ELSE pylint_loop(Tail(items),
                     [st EXCEPT !.issues = Append(@, pylint_issue(Head(items).v))])

RECURSIVE flake8_loop(_, _)
flake8_loop(items, st) ==
    IF items = <<>> THEN st
    ELSE IF Head(items).type # "dict" THEN Raised(st, "AttributeError")
    ELSE flake8_loop(Tail(items),
                     [st EXCEPT !.issues = Append(@, flake8_issue(Head(items).v))])

RECURSIVE eslint_messages(_, _)
eslint_messages(messages, st) ==
    IF messages = <<>> THEN st
    ELSE IF Head(messages).type # "dict" THEN Raised(st, "AttributeError")
    ELSE eslint_messages(Tail(messages),
                         [st EXCEPT !.issues = Append(@, eslint_issue(Head(messages).v))])

RECURSIVE eslint_loop(_, _)
eslint_loop(results, st) ==
    IF results = <<>> \/ st.exc # "none" THEN st
    ELSE IF Head(results).type # "dict" THEN Raised(st, "AttributeError")
    ELSE eslint_loop(Tail(results),
                     eslint_messages(Get(Head(results).v, "messages", <<>>), st))

\* the try block of pylint with its except Exception: the issues after it
run_pylint(out, found) ==
    IF out.stdout = "json"
    THEN pylint_loop(out.items, [issues |-> found, exc |-> "none"]).issues
    ELSE found

run_flake8(out, found) ==
    IF out.stdout = "json"
    THEN flake8_loop(out.items, [issues |-> found, exc |-> "none"]).issues
    ELSE found

run_eslint(out, found) ==
    IF out.stdout = "json"
    THEN eslint_loop(out.items, [issues |-> found, exc |-> "none"]).issues
    ELSE found

eslint_extensions ==
    { <<".", "j", "s">>, <<".", "j", "s", "x">>, <<".", "t", "s">>,
      <<".", "t", "s", "x">> }

\* the issues of the linters that run for the extension
linter_issues(file_extension, lint) ==
    IF file_extension = <<".", "p", "y">>
    THEN run_flake8(lint.flake8, run_pylint(lint.pylint, <<>>))
    ELSE IF file_extension \in eslint_extensions
    THEN run_eslint(lint.eslint, <<>>)
    ELSE <<>>

\* the function with one try block around the linters and the scanner: a
\* linter that raises ends the block before the scanner is called
run_static_analysis_one_try(content, path, lint) ==
    CHOOSE out \in
        { IF \/ ext = <<".", "p", "y">> /\ Failing \in {lint.pylint, lint.flake8}
             \/ ext \in eslint_extensions /\ lint.eslint = Failing
          THEN linter_issues(ext, lint)
          ELSE linter_issues(ext, lint) \o basic_pattern_analysis(content, ext)
          : ext \in {Lower(splitext(path)[2])} } : TRUE

run_static_analysis(content, path, lint) ==
    CHOOSE out \in { linter_issues(ext, lint) \o basic_pattern_analysis(content, ext)
                     : ext \in {Lower(splitext(path)[2])} } : TRUE

\* the name tempfile.NamedTemporaryFile(suffix=file_extension, delete=False)
\* gives the file it creates
temp_file_path == "tmp"

\* the finally block: os.unlink(temp_file_path) inside try/except; the name
\* is gone afterwards, removed here or found removed
Unlink(files, name) == files \ {name}

\* a call of run_static_analysis with the temporary directory holding files:
\* the exception that leaves the call, the list returned, and the directory
\* at the return
StaticAnalysisCall(content, path, lint, files) ==
    [exc |-> "none",
     value |-> run_static_analysis(content, path, lint),
     files |-> Unlink(files \cup {temp_file_path}, temp_file_path)]

(***************************************************************************)
(* The analysis pass of the dashboard on one file of the pull request.     *)
(* Its outcome is [exc, skipped, file_issues, requests]: the exception     *)
(* that ends the pass (the pass's except Exception reports it and stops),  *)
(* whether the file was skipped, the file's normalized issues and the      *)
(* number of requests made to the API.                                     *)
(***************************************************************************)
supported_extensions ==
    << <<".", "p", "y">>, <<".", "j", "s">>, <<".", "t", "s">>,
       <<".", "j", "s", "x">>, <<".", "t", "s", "x">>,
       <<".", "j", "a", "v", "a">>, <<".", "g", "o">>, <<".", "r", "b">>,
       <<".", "c">>, <<".", "c", "p", "p">>, <<".", "c", "s">> >>

is_supported(filename) ==
    \E k \in DOMAIN supported_extensions : EndsWith(filename, supported_extensions[k])

static_issue(filename, issue) ==
    [file |-> filename,
     type |-> "static",
     line |-> Get(issue, "line", 0),
     message |-> Get(issue, "message", ""),
     severity |-> Get(issue, "severity", "info")]

llm_issue(filename, issue) ==
    [file |-> filename,
     type |-> "llm",
     line |-> Get(issue, "line", 0),
     message |-> Get(issue, "message", ""),
     severity |-> Get(issue, "severity", "info"),
     suggested_fix |-> Get(issue, "fix", "")]

\* the static issues of the file, normalized
static_file_issues(content, filename, sess, lint) ==
    IF sess.use_static
    THEN CHOOSE out \in { [k \in DOMAIN static_results |->
                              static_issue(filename, static_results[k])]
                          : static_results \in
                                {run_static_analysis(content, filename, lint)} } : TRUE
    ELSE <<>>

\* the list comprehension over llm_results: iterating a list gives its
\* items, iterating a dict its keys and a str its characters, which have no
\* .get, and any other value is not iterable
llm_comprehension(filename, llm_results) ==
    CASE llm_results.type = "list" ->
            IF \E k \in DOMAIN llm_results.v : llm_results.v[k].type # "dict"
            THEN [exc |-> "AttributeError", issues |-> <<>>]
            ELSE [exc |-> "none",
                  issues |-> [k \in DOMAIN llm_results.v |->
                                 llm_issue(filename, llm_results.v[k].v)]]
      [] llm_results.type = "dict" ->
            IF DOMAIN llm_results.v = {}
            THEN [exc |-> "none", issues |-> <<>>]
            ELSE [exc |-> "AttributeError", issues |-> <<>>]
      [] llm_results.type = "str" ->
            IF llm_results.v = ""
            THEN [exc |-> "none", issues |-> <<>>]
            ELSE [exc |-> "AttributeError", issues |-> <<>>]
      [] OTHER -> [exc |-> "TypeError", issues |-> <<>>]

\* the language-model issues of the file, normalized
llm_file_issues(content, filename, sess, resp) ==
    IF sess.use_llm /\ sess.has_openai_api_key
    THEN CHOOSE out \in { [requests |-> r.requests] @@
                          llm_comprehension(filename, r.value)
                          : r \in {run_llm_analysis(content, filename, resp)} } : TRUE
    ELSE [requests |-> 0, exc |-> "none", issues |-> <<>>]

analyse_file(content, filename, sess, lint, resp) ==
    IF ~is_supported(filename) \/ content = <<>>
    THEN [exc |-> "none", skipped |-> TRUE, file_issues |-> <<>>, requests |-> 0]
    ELSE CHOOSE out \in
            { [exc |-> llm.exc, skipped |-> FALSE, requests |-> llm.requests,
               file_issues |-> static_file_issues(content, filename, sess, lint)
                               \o llm.issues]
              : llm \in {llm_file_issues(content, filename, sess, resp)} } : TRUE

(***************************************************************************)
(* The loop of the analysis pass over the files of the pull request.  A    *)
(* file is the record of files_data with two more fields, available and    *)
(* content: what get_file_content will return for its name (None when not  *)
(* available).  acc holds all_issues, tech_debt_scores, code_contents and  *)
(* the exception that ended the loop.                                      *)
(***************************************************************************)
\* the truth value of a text or of None
Truthy(s) == s \notin {None, ""}

\* "Skip very large files and binaries"
SkipsFile(file) == Get(file, "changes", 0) > 1000 \/ ~Truthy(Get(file, "patch", None))

\* the loop body that enters the content in code_contents before testing it
PassFile_keeps_empty(acc, file, sess, lint, resp) ==
    IF SkipsFile(file) \/ ~is_supported(file.filename) THEN acc
    ELSE IF ~file.available THEN acc
    ELSE IF file.content = <<>>
    THEN [acc EXCEPT !.code_contents = (file.filename :> file.content) @@ @]
    ELSE CHOOSE out \in
            { IF r.exc # "none" THEN [acc EXCEPT !.exc = r.exc]
              ELSE [exc |-> "none",
                    all_issues |-> acc.all_issues \o r.file_issues,
                    tech_debt_scores |->
                        (file.filename :>
                            calculate_tech_debt_score(file.content, file.filename,
                                                      r.file_issues))
                        @@ acc.tech_debt_scores,
                    code_contents |-> (file.filename :> file.content) @@ acc.code_contents]
              : r \in {analyse_file(file.content, file.filename, sess, lint, resp)} } : TRUE

\* the loop body for one file
PassFile(acc, file, sess, lint, resp) ==
    IF SkipsFile(file) \/ ~is_supported(file.filename) THEN acc
    ELSE IF ~file.available \/ file.content = <<>> THEN acc
    ELSE CHOOSE out \in
            { IF r.exc # "none" THEN [acc EXCEPT !.exc = r.exc]
              ELSE [exc |-> "none",
                    all_issues |-> acc.all_issues \o r.file_issues,
                    tech_debt_scores |->
                        (file.filename :>
                            calculate_tech_debt_score(file.content, file.filename,
                                                      r.file_issues))
                        @@ acc.tech_debt_scores,
                    code_contents |-> (file.filename :> file.content) @@ acc.code_contents]
              : r \in {analyse_file(file.content, file.filename, sess, lint, resp)} } : TRUE

RECURSIVE PassLoop(_, _, _, _, _, _)
PassLoop(files_data, k, acc, sess, lint, resp) ==
    IF k > Len(files_data) \/ acc.exc # "none" THEN acc
    ELSE PassLoop(files_data, k + 1, PassFile(acc, files_data[k], sess, lint, resp),
                  sess, lint, resp)

\* the pass from "Process each file in the PR" to the stored results
PassOverFiles(files_data, sess, lint, resp) ==
    PassLoop(files_data, 1,
             [exc |-> "none", all_issues |-> <<>>, tech_debt_scores |-> <<>>,
              code_contents |-> <<>>],
             sess, lint, resp)

(***************************************************************************)
(* src/data_handler.py.  The data directory is a record: files, the set of *)
(* the feedback and analysis files with their modification times; summary, *)
(* the state of analysis_summary.json (absent, a JSON list of entries, or  *)
(* text that json.load rejects) with its modification time; now, the clock.  A time is <<day, part>>, *)
(* the part standing for the microseconds.  A write to a file succeeds, is *)
(* refused (open raises and the file is as before) or is cut short (the    *)
(* file was truncated and json.dump raised).                               *)
(***************************************************************************)
TimeLess(a, b) == a[1] < b[1] \/ (a[1] = b[1] /\ a[2] < b[2])

DigitChars == <<"0", "1", "2", "3", "4", "5", "6", "7", "8", "9">>

\* strftime("%Y%m%d%H%M%S"): the time to the second, in a fixed width
strftime(t) == <<DigitChars[(t[1] \div 10) + 1], DigitChars[(t[1] % 10) + 1]>>

\* datetime.isoformat(): the microseconds are printed only when not zero
isoformat(t) ==
    strftime(t) \o (IF t[2] = 0 THEN <<>> ELSE <<".", DigitChars[t[2] + 1]>>)

\* ord(c) for the characters of a date
Ord(c) == IF c = "." THEN 46 ELSE 48 + (CHOOSE n \in 0..9 : DigitChars[n + 1] = c)

RECURSIVE StrLess(_, _)
\* a < b of str
StrLess(a, b) ==
    IF b = <<>> THEN FALSE
    ELSE IF a = <<>> THEN TRUE
    ELSE IF Head(a) # Head(b) THEN Ord(Head(a)) < Ord(Head(b))
    ELSE StrLess(Tail(a), Tail(b))

RECURSIVE SumOverall(_, _)
\* sum(score.get("overall", 0) for score in tech_debt_scores.values())
SumOverall(tech_debt_scores, names) ==
    IF names = {} THEN R(0)
    ELSE LET name == CHOOSE n \in names : TRUE
         IN  RAdd(Get(tech_debt_scores[name], "overall", R(0)),
                  SumOverall(tech_debt_scores, names \ {name}))

calculate_avg_tech_debt(tech_debt_scores) ==
    IF DOMAIN tech_debt_scores = {} THEN R(0)
    ELSE RDiv(SumOverall(tech_debt_scores, DOMAIN tech_debt_scores),
              R(Cardinality(DOMAIN tech_debt_scores)))

\* the entries json.load reads from the summary file where the code falls
\* back to [] on a file it cannot parse
ReadableEntries(dir) == IF dir.summary.state = "list" THEN dir.summary.entries ELSE <<>>

\* json.dump of the entries to the summary file
WriteSummary(dir, entries, write) ==
    CASE write = "ok" ->
            [dir EXCEPT !.summary = [state |-> "list", entries |-> entries, mtime |-> dir.now]]
      [] write = "refused" -> dir
      [] write = "cut" ->
            [dir EXCEPT !.summary = [state |-> "corrupt", entries |-> <<>>, mtime |-> dir.now]]

\* the outcome is the directory after the call and the value returned
save_analysis_summary(dir, analysis, write) ==
    [dir |-> WriteSummary(dir,
                Append(ReadableEntries(dir),
                       [repo |-> Get(analysis, "repo", ""),
                        pr_number |-> Get(analysis, "pr_number", ""),
                        date |-> Get(analysis, "date", isoformat(dir.now)),
                        issue_count |-> Get(analysis, "issue_count", 0),
                        review_time_mins |-> Get(analysis, "review_time_mins", R(0)),
                        tech_debt_avg |->
                            calculate_avg_tech_debt(Get(analysis, "tech_debt_scores", <<>>))]),
                write),
     value |-> write = "ok"]

\* a file written under the name the kind, the repository, the pull request
\* and the time to the second make; a file of that name is replaced
WriteFile(dir, kind, repo, pr_number) ==
    LET same(f) == /\ f.kind = kind /\ f.repo = repo /\ f.pr_number = pr_number
                   /\ f.timestamp = strftime(dir.now)
    IN  [dir EXCEPT !.files = {f \in @ : ~same(f)} \cup
                                {[kind |-> kind, repo |-> repo, pr_number |-> pr_number,
                                  timestamp |-> strftime(dir.now), mtime |-> dir.now]}]

\* the value save_analysis_summary returns is not looked at
save_analysis_results(dir, repo, pr_number, results, file_write, summary_write) ==
    IF file_write # "ok" THEN [dir |-> dir, value |-> FALSE]
    ELSE [dir |-> save_analysis_summary(
                      WriteFile(dir, "analysis", repo, pr_number),
                      [repo |-> repo, pr_number |-> pr_number, date |-> isoformat(dir.now),
                       issues |-> Get(results, "issues", <<>>),
                       tech_debt_scores |-> Get(results, "tech_debt_scores", <<>>),
                       review_time |-> Get(results, "review_time", 0),
                       issue_count |-> Len(Get(results, "issues", <<>>)),
                       review_time_mins |-> RDiv(R(Get(results, "review_time", 0)), R(60))],
                      summary_write).dir,
          value |-> TRUE]

\* save_feedback: the outcome is the directory after the call and the value
\* returned
save_feedback(dir, feedback, write) ==
    IF write # "ok" THEN [dir |-> dir, value |-> FALSE]
    ELSE [dir |-> WriteFile(dir, "feedback", Get(feedback, "repository", "unknown"),
                            Get(feedback, "pr_number", "0")),
          value |-> TRUE]

RECURSIVE SortByDate(_)
\* list.sort(key=date, reverse=True): later dates first, entries of one date
\* in their order
SortByDate(entries) ==
    IF entries = <<>> THEN <<>>
    ELSE LET rest == SortByDate(SubSeq(entries, 1, Len(entries) - 1))
             last == entries[Len(entries)]
             before == SelectSeq(rest, LAMBDA e : ~StrLess(e.date, last.date))
             after == SelectSeq(rest, LAMBDA e : StrLess(e.date, last.date))
         IN  before \o <<last>> \o after

load_previous_analyses(dir, repo) ==
    IF dir.summary.state # "list" THEN <<>>
    ELSE SortByDate(IF Truthy(repo)
                    THEN SelectSeq(dir.summary.entries, LAMBDA e : e.repo = repo)
                    ELSE dir.summary.entries)

\* the function keeping the entries dated after the cutoff only
\* a file name is the tuple of the parts it is made of; analysis_summary.json
\* has the first part alone
SummaryName == <<"analysis_summary", "", "", <<>>>>

\* data_dir.glob("*.json"): the files of the directory as name and
\* modification time, the summary file among them when it is there
data_files(dir) ==
    {[name |-> <<f.kind, f.repo, f.pr_number, f.timestamp>>, mtime |-> f.mtime] : f \in dir.files}
        \cup (IF dir.summary.state = "absent" THEN {}
              ELSE {[name |-> SummaryName, mtime |-> dir.summary.mtime]})

\* the directory without the files of these names
UnlinkAll(dir, names) ==
    [dir EXCEPT !.files = {f \in @ : <<f.kind, f.repo, f.pr_number, f.timestamp>> \notin names},
                !.summary = IF SummaryName \in names
                            THEN [state |-> "absent", entries |-> <<>>, mtime |-> <<0, 0>>]
                            ELSE @]

\* the entries dated at the cutoff are dropped
delete_old_data_after_cutoff(dir, days, write) ==
    LET cutoff_date == <<dir.now[1] - days, dir.now[2]>>
        kept == UnlinkAll(dir, {file.name : file \in
                                   {f \in data_files(dir) :
                                       /\ f.name # SummaryName
                                       /\ TimeLess(f.mtime, cutoff_date)}})
    IN  IF kept.summary.state = "absent" THEN [dir |-> kept, value |-> TRUE]
        ELSE IF kept.summary.state = "corrupt" THEN [dir |-> kept, value |-> FALSE]
        ELSE [dir |-> WriteSummary(kept,
                          SelectSeq(kept.summary.entries,
                                    LAMBDA e : StrLess(isoformat(cutoff_date), e.date)),
                          write),
              value |-> write = "ok"]

\* the outcome is the directory after the call and the value returned
delete_old_data(dir, days, write) ==
    LET cutoff_date == <<dir.now[1] - days, dir.now[2]>>
        kept == UnlinkAll(dir, {file.name : file \in
                                   {f \in data_files(dir) :
                                       /\ f.name # SummaryName
                                       /\ TimeLess(f.mtime, cutoff_date)}})
    IN  IF kept.summary.state = "absent" THEN [dir |-> kept, value |-> TRUE]
        ELSE IF kept.summary.state = "corrupt" THEN [dir |-> kept, value |-> FALSE]
        ELSE [dir |-> WriteSummary(kept,
                          SelectSeq(kept.summary.entries,
                                    LAMBDA e : ~StrLess(e.date, isoformat(cutoff_date))),
                          write),
              value |-> write = "ok"]

(***************************************************************************)
(* Inputs                                                                  *)
(***************************************************************************)
PyPath == <<"a", "p", "p", "/", "f", "o", "o", ".", "p", "y">>

NoResponse == [kind |-> "none"]

NoLinters == [pylint |-> Silent, flake8 |-> Silent, eslint |-> Silent]

NoRet == [kind |-> "none"]

\* the configuration a Run Analysis click stores when only the static
\* analysis is ticked; analysis_results is reset to None, here NoResults
NoResults == [none |-> TRUE]

NoSession == [use_static |-> TRUE, use_llm |-> FALSE, has_openai_api_key |-> FALSE,
              analysis_results |-> NoResults]

\* the state before any argument is built
Blank ==
    /\ code_content = <<>>
    /\ file_path = PyPath
    /\ issues = <<>>
    /\ response = NoResponse
    /\ linters = NoLinters
    /\ api_calls = 0
    /\ session = NoSession
    /\ ret = NoRet
    /\ typed = 0
    /\ pc = "input"

\* the caller extends the source text by the fragment f
Type(f, maxfrags) ==
    /\ pc = "input"
    /\ typed < maxfrags
    /\ typed' = typed + 1
    /\ code_content' = code_content \o f
    /\ UNCHANGED <<file_path, issues, response, linters, api_calls, session, ret, pc>>

(***************************************************************************)
(* The pattern scanner on lines with credentials                           *)
(***************************************************************************)
MaxCredFrags == 6

CredFrags == { <<"k","e","y">>, <<"=">>, <<"\"">>, <<"'">>, <<"\n">> }

TypeCred == \E f \in CredFrags : Type(f, MaxCredFrags)

\* run_static_analysis's call of the scanner with the path's extension
Scan ==
    /\ pc = "input"
    /\ ret' = [kind |-> "issues",
               value |-> basic_pattern_analysis(code_content,
                                                Lower(splitext(file_path)[2]))]
    /\ pc' = "scanned"
    /\ UNCHANGED <<code_content, file_path, issues, response, linters, api_calls, session, typed>>

NextCred == TypeCred \/ Scan

SpecCred == Blank /\ [][NextCred]_vars

(***************************************************************************)
(* The pattern scanner on long lines                                       *)
(***************************************************************************)
MaxLenFrags == 6

\* max_line_length - 1 characters
Pad == [i \in 1..(max_line_length - 1) |-> "x"]

LenFrags == { Pad, <<"x">>, <<"\n">> }

TypeLen == \E f \in LenFrags : Type(f, MaxLenFrags)

NextLen == TypeLen \/ Scan

SpecLen == Blank /\ [][NextLen]_vars

(***************************************************************************)
(* The scorer on texts, paths and issue lists                              *)
(***************************************************************************)
MaxScoreInputs == 4

TestPath ==
    <<"t","e","s","t","s","/","f","o","o","_","t","e","s","t",".","p","y">>

ScorePaths == {PyPath, TestPath}

Indent == <<" ", " ", " ", " ", " ", " ", " ", " ">>

ScoreFrags ==
    { <<"\n">>,
      Indent,
      <<"d","e","f"," ","f","(",")",":","\n">>,
      <<"r","e","t","u","r","n"," ","x","\n">>,
      <<"#"," ","a"," ","c","o","m","m","e","n","t","\n">>,
      <<"\"","\"","\"","\n">>,
      <<"i","m","p","o","r","t"," ","p","y","t","e","s","t","\n">> }

\* the issue records handed to the scorer: one of each severity, one without
\* the severity key
ScoreIssues ==
    { [line |-> 1, message |-> "m", severity |-> "error"],
      [line |-> 1, message |-> "m", severity |-> "warning"],
      [line |-> 1, message |-> "m", severity |-> "info"],
      [line |-> 1, message |-> "m"] }

InitScore ==
    /\ code_content = <<>>
    /\ file_path \in ScorePaths
    /\ issues = <<>>
    /\ response = NoResponse
    /\ linters = NoLinters
    /\ api_calls = 0
    /\ session = NoSession
    /\ ret = NoRet
    /\ typed = 0
    /\ pc = "input"

TypeScore == \E f \in ScoreFrags : Type(f, MaxScoreInputs)

\* the caller appends an issue record to the issue list
AddIssue ==
    /\ pc = "input"
    /\ typed < MaxScoreInputs
    /\ typed' = typed + 1
    /\ \E i \in ScoreIssues : issues' = Append(issues, i)
    /\ UNCHANGED <<code_content, file_path, response, linters, api_calls, session, ret, pc>>

Score ==
    /\ pc = "input"
    /\ ret' = [kind |-> "score"] @@
              calculate_tech_debt_score(code_content, file_path, issues)
    /\ pc' = "scored"
    /\ UNCHANGED <<code_content, file_path, issues, response, linters, api_calls, session, typed>>

NextScore == TypeScore \/ AddIssue \/ Score

SpecScore == InitScore /\ [][NextScore]_vars

(***************************************************************************)
(* run_llm_analysis on texts around the size limit                         *)
(***************************************************************************)
MaxGuardFrags == 4

\* llm_size_limit - 1 characters
Page == [i \in 1..(llm_size_limit - 1) |-> "x"]

GuardFrags == { Page, <<"x">> }

\* an answer that is a list of one issue record
OneIssueAnswer ==
    << "[", "{", "\"", "l", "i", "n", "e", "\"", ":", "2", "}", "]" >>

Http(status_code, has_content, content) ==
    [kind |-> "http", status_code |-> status_code, has_content |-> has_content,
     content |-> content]

\* the API is unreachable, refuses, answers without a content, or answers
\* with the content that the model then extends
Answers ==
    { [kind |-> "raise"], Http(500, FALSE, <<>>), Http(200, FALSE, <<>>),
      Http(200, TRUE, <<>>) }

InitGuard ==
    /\ code_content = <<>>
    /\ file_path = PyPath
    /\ issues = <<>>
    /\ response \in Answers \cup {Http(200, TRUE, OneIssueAnswer)}
    /\ linters = NoLinters
    /\ api_calls = 0
    /\ session = NoSession
    /\ ret = NoRet
    /\ typed = 0
    /\ pc = "input"

TypeGuard == \E f \in GuardFrags : Type(f, MaxGuardFrags)

\* the call of run_llm_analysis
Ask ==
    /\ pc = "input"
    /\ \E r \in {run_llm_analysis(code_content, file_path, response)} :
          /\ ret' = [kind |-> "llm", exc |-> r.exc, value |-> r.value]
          /\ api_calls' = api_calls + r.requests
    /\ pc' = "asked"
    /\ UNCHANGED <<code_content, file_path, issues, response, linters, session, typed>>

NextGuard == TypeGuard \/ Ask

SpecGuard == InitGuard /\ [][NextGuard]_vars

(***************************************************************************)
(* run_llm_analysis on the answers of the API                              *)
(***************************************************************************)
MaxAnswerFrags == 4

AnswerFrags ==
    { <<"[">>, <<"]">>, <<"{">>, <<"}">>, <<",">>, <<"1">>,
      << "{", "\"", "l", "i", "n", "e", "\"", ":", "2", "}" >>,
      << "I", "s", "s", "u", "e", "s", ":", " " >> }

InitAnswer ==
    /\ code_content = <<"x">>
    /\ file_path = PyPath
    /\ issues = <<>>
    /\ response \in Answers
    /\ linters = NoLinters
    /\ api_calls = 0
    /\ session = NoSession
    /\ ret = NoRet
    /\ typed = 0
    /\ pc = "input"

\* the API's answer grows by the fragment f
Answer(f, maxfrags) ==
    /\ pc = "input"
    /\ typed < maxfrags
    /\ response.kind = "http" /\ response.status_code = 200 /\ response.has_content
    /\ typed' = typed + 1
    /\ response' = [response EXCEPT !.content = @ \o f]
    /\ UNCHANGED <<code_content, file_path, issues, linters, api_calls, session, ret, pc>>

TypeAnswer == \E f \in AnswerFrags : Answer(f, MaxAnswerFrags)

NextAnswer == TypeAnswer \/ Ask

SpecAnswer == InitAnswer /\ [][NextAnswer]_vars

(***************************************************************************)
(* The analysis pass on one file, with linter outputs and API answers      *)
(***************************************************************************)
MaxPassInputs == 2

JsPath == <<"a", "p", "p", "/", "f", "o", "o", ".", "j", "s">>

PassPaths == {PyPath, JsPath}

\* no text, a text with a todo comment, a text with a credential
PassTexts ==
    { <<>>,
      <<"#", " ", "T", "O", "D", "O", "\n">>,
      <<"k", "e", "y", " ", "=", " ", "'", "a", "b", "c", "'", "\n">> }

\* the configurations a Run Analysis click stores: the language-model
\* analysis is accepted only with a key
PassSessions ==
    { [use_static |-> s, use_llm |-> l, has_openai_api_key |-> k,
       analysis_results |-> NoResults]
      : s \in BOOLEAN, l \in {FALSE}, k \in BOOLEAN }
    \cup
    { [use_static |-> s, use_llm |-> TRUE, has_openai_api_key |-> TRUE,
       analysis_results |-> NoResults] : s \in BOOLEAN }

\* what pylint prints: records with and without a type, and a value that is
\* not a record
PylintRecords ==
    { JDict([type |-> "error", line |-> 3, message |-> "m"]),
      JDict([type |-> "convention", line |-> 3, message |-> "m"]),
      JDict([line |-> 3, message |-> "m"]),
      JInt(1) }

Flake8Records ==
    { JDict([line_number |-> 4, text |-> "t", code |-> "E501"]), JInt(1) }

EslintMessages ==
    { JDict([severity |-> 2, line |-> 5, message |-> "m"]),
      JDict([severity |-> 1, line |-> 5, message |-> "m"]),
      JDict([line |-> 5, message |-> "m"]),
      JInt(1) }

\* [{"line":2,"severity":"critical"}]
CriticalAnswer ==
    << "[", "{", "\"", "l", "i", "n", "e", "\"", ":", "2", ",",
       "\"", "s", "e", "v", "e", "r", "i", "t", "y", "\"", ":",
       "\"", "c", "r", "i", "t", "i", "c", "a", "l", "\"", "}", "]" >>

\* [{"severity":"warning","fix":"f"}]
WarningAnswer ==
    << "[", "{", "\"", "s", "e", "v", "e", "r", "i", "t", "y", "\"", ":",
       "\"", "w", "a", "r", "n", "i", "n", "g", "\"", ",",
       "\"", "f", "i", "x", "\"", ":", "\"", "f", "\"", "}", "]" >>

\* {"line":2}
RecordAnswer == << "{", "\"", "l", "i", "n", "e", "\"", ":", "2", "}" >>

PassAnswers ==
    { CriticalAnswer, WarningAnswer, OneIssueAnswer, RecordAnswer,
      << "I", "s", "s", "u", "e", "s", ":", " " >> }

InitPass ==
    /\ code_content \in PassTexts
    /\ file_path \in PassPaths
    /\ issues = <<>>
    /\ response \in Answers
    /\ linters = NoLinters
    /\ api_calls = 0
    /\ session \in PassSessions
    /\ ret = NoRet
    /\ typed = 0
    /\ pc = "input"

\* the linters run_static_analysis runs for the file
ToolsFor(path) ==
    IF Lower(splitext(path)[2]) = <<".", "p", "y">> THEN {"pylint", "flake8"}
    ELSE IF Lower(splitext(path)[2]) \in eslint_extensions THEN {"eslint"}
    ELSE {}

\* the linter tool will print one more value
Prints(tool, value) ==
    /\ pc = "input"
    /\ typed < MaxPassInputs
    /\ tool \in ToolsFor(file_path)
    /\ linters[tool].stdout # "raise"
    /\ typed' = typed + 1
    /\ linters' = [linters EXCEPT ![tool] = Printed(@.items \o <<value>>)]
    /\ UNCHANGED <<code_content, file_path, issues, response, api_calls, session, ret, pc>>

PylintPrints == \E r \in PylintRecords : Prints("pylint", r)

Flake8Prints == \E r \in Flake8Records : Prints("flake8", r)

\* ESLint will print a file result with one message, or one without the
\* messages key
EslintPrints ==
    \/ \E m \in EslintMessages : Prints("eslint", JDict([messages |-> <<m>>]))
    \/ Prints("eslint", JDict([filePath |-> "f"]))

\* the linter tool is not installed, or prints what json.loads rejects
LinterFails ==
    /\ pc = "input"
    /\ typed < MaxPassInputs
    /\ \E tool \in ToolsFor(file_path) :
          /\ linters[tool] = Silent
          /\ linters' = [linters EXCEPT ![tool] = Failing]
    /\ typed' = typed + 1
    /\ UNCHANGED <<code_content, file_path, issues, response, api_calls, session, ret, pc>>

PassAnswer == \E f \in PassAnswers : Answer(f, MaxPassInputs)

\* the results the pass stores for the one file
StoredResults(r) ==
    [none |-> FALSE,
     issues |-> r.file_issues,
     tech_debt_scores |->
        IF r.skipped THEN <<>>
        ELSE (file_path :> calculate_tech_debt_score(code_content, file_path,
                                                     r.file_issues)),
     code_contents |-> IF r.skipped THEN <<>> ELSE (file_path :> code_content)]

\* the analysis pass: issues is the list handed to calculate_tech_debt_score;
\* an exception leaves analysis_results as it was
AnalysisPass ==
    /\ pc = "input"
    /\ \E r \in {analyse_file(code_content, file_path, session, linters, response)} :
          /\ ret' = [kind |-> "pass", exc |-> r.exc, skipped |-> r.skipped]
          /\ api_calls' = api_calls + r.requests
          /\ issues' = IF r.exc = "none" THEN r.file_issues ELSE issues
          /\ session' = IF r.exc = "none"
                        THEN [session EXCEPT !.analysis_results = StoredResults(r)]
                        ELSE session
    /\ pc' = "analysed"
    /\ UNCHANGED <<code_content, file_path, response, linters, typed>>

NextPass ==
    \/ PylintPrints
    \/ Flake8Prints
    \/ EslintPrints
    \/ LinterFails
    \/ PassAnswer
    \/ AnalysisPass

SpecPass == InitPass /\ [][NextPass]_vars

(***************************************************************************)
(* The pattern scanner on texts with catch handlers                        *)
(***************************************************************************)
MaxCatchFrags == 5

GoPath == <<"a", "p", "p", "/", "f", "o", "o", ".", "g", "o">>

\* a path whose extension the empty-catch check covers and one it does not
CatchPaths == {JsPath, GoPath}

\* catch (e) { }
EmptyHandler ==
    <<"c", "a", "t", "c", "h", " ", "(", "e", ")", " ", "{", " ", "}">>

CatchFrags ==
    { <<"c", "a", "t", "c", "h">>, <<"(", "e", ")">>, <<"{">>, <<"}">>,
      <<"\n">>, EmptyHandler }

InitCatch ==
    /\ code_content = <<>>
    /\ file_path \in CatchPaths
    /\ issues = <<>>
    /\ response = NoResponse
    /\ linters = NoLinters
    /\ api_calls = 0
    /\ session = NoSession
    /\ ret = NoRet
    /\ typed = 0
    /\ pc = "input"

TypeCatch == \E f \in CatchFrags : Type(f, MaxCatchFrags)

NextCatch == TypeCatch \/ Scan

SpecCatch == InitCatch /\ [][NextCatch]_vars

(***************************************************************************)
(* The pattern scanner on texts with TODO and FIXME                        *)
(***************************************************************************)
MaxTodoFrags == 5

TodoFrags ==
    { <<"T", "o", "D", "o">>, <<"F", "I", "X", "M", "E">>, <<"x">>, <<"_">>,
      <<" ">>, <<"\n">> }

TypeTodo == \E f \in TodoFrags : Type(f, MaxTodoFrags)

NextTodo == TypeTodo \/ Scan

SpecTodo == Blank /\ [][NextTodo]_vars

(***************************************************************************)
(* The scorer on paths and texts that name tests                           *)
(***************************************************************************)
MaxCoverageFrags == 3

\* app/foo.py, tests/foo_test.py, a/Spec.js, Latest.py
CoveragePaths ==
    { PyPath, TestPath,
      <<"a", "/", "S", "p", "e", "c", ".", "j", "s">>,
      <<"L", "a", "t", "e", "s", "t", ".", "p", "y">> }

CoverageFrags ==
    { <<"J", "E", "S", "T", " ">>, <<"M", "o", "c", "h", "a">>,
      <<"u", "n", "i", "t">>, <<"p", "y">>, <<"t", "e", "s", "t">>,
      <<"x", "\n">> }

InitCoverage ==
    /\ code_content = <<>>
    /\ file_path \in CoveragePaths
    /\ issues = <<>>
    /\ response = NoResponse
    /\ linters = NoLinters
    /\ api_calls = 0
    /\ session = NoSession
    /\ ret = NoRet
    /\ typed = 0
    /\ pc = "input"

TypeCoverage == \E f \in CoverageFrags : Type(f, MaxCoverageFrags)

NextCoverage == TypeCoverage \/ Score

SpecCoverage == InitCoverage /\ [][NextCoverage]_vars

(***************************************************************************)
(* The scorer on texts of one to fifteen lines and issue lists             *)
(***************************************************************************)
MaxSmellInputs == 4

OneLine == <<"x", "\n">>

FiveLines == OneLine \o OneLine \o OneLine \o OneLine \o OneLine

SmellFrags == {OneLine, FiveLines}

\* one record of each severity, one of a severity outside the three, one
\* without the severity key
SmellIssues ==
    { [line |-> 1, message |-> "m", severity |-> "error"],
      [line |-> 1, message |-> "m", severity |-> "warning"],
      [line |-> 1, message |-> "m", severity |-> "info"],
      [line |-> 1, message |-> "m", severity |-> "critical"],
      [line |-> 1, message |-> "m"] }

TypeSmell == \E f \in SmellFrags : Type(f, MaxSmellInputs)

\* the caller appends the issue record i to the issue list
Report(i, maxinputs) ==
    /\ pc = "input"
    /\ typed < maxinputs
    /\ typed' = typed + 1
    /\ issues' = Append(issues, i)
    /\ UNCHANGED <<code_content, file_path, response, linters, api_calls, session, ret, pc>>

ReportSmell == \E i \in SmellIssues : Report(i, MaxSmellInputs)

NextSmell == TypeSmell \/ ReportSmell \/ Score

SpecSmell == Blank /\ [][NextSmell]_vars

(***************************************************************************)
(* The pattern scanner called twice on the same text and extension         *)
(***************************************************************************)
MaxRescanFrags == 4

LongLine == Pad \o <<"x", "x", "\n">>

TodoLine == <<"T","O","D","O","\n">>

KeyLine == <<"k","e","y","=","'","k","'","\n">>

RescanFrags == {LongLine, TodoLine, KeyLine, EmptyHandler, <<"\n">>}

TypeRescan == \E f \in RescanFrags : Type(f, MaxRescanFrags)

\* a second call with the same arguments whose issue list goes on from the
\* list of the first call
Rescan_accumulating ==
    /\ pc = "scanned"
    /\ issues' = ret.value
    /\ ret' = [kind |-> "issues",
               value |-> ret.value \o basic_pattern_analysis(code_content,
                                                              Lower(splitext(file_path)[2]))]
    /\ pc' = "rescanned"
    /\ UNCHANGED <<code_content, file_path, response, linters, api_calls, session, typed>>

\* the caller keeps the list the first call returned and calls the scanner
\* again with the same arguments; the call starts from issues = []
Rescan ==
    /\ pc = "scanned"
    /\ issues' = ret.value
    /\ ret' = [kind |-> "issues",
               value |-> basic_pattern_analysis(code_content,
                                                Lower(splitext(file_path)[2]))]
    /\ pc' = "rescanned"
    /\ UNCHANGED <<code_content, file_path, response, linters, api_calls, session, typed>>

NextRescan == TypeRescan \/ Scan \/ Rescan

SpecRescan == InitCatch /\ [][NextRescan]_vars

(***************************************************************************)
(* run_static_analysis and the pass on linter records with and without     *)
(* type, line and column                                                   *)
(***************************************************************************)
PylintTypes ==
    {"error", "fatal", "warning", "refactor", "convention", "info", "",
     "Error", "errors", "x"}

\* pylint records of every type, one without a type, and records of type
\* error without line, without column, without both
LintPylintRecords ==
    { JDict([type |-> t, line |-> 3, column |-> 1, message |-> "m"]) : t \in PylintTypes }
    \cup
    { JDict([line |-> 3, column |-> 1, message |-> "m"]),
      JDict([type |-> "error", column |-> 1, message |-> "m"]),
      JDict([type |-> "error", line |-> 3, message |-> "m"]),
      JDict([type |-> "error", message |-> "m"]) }

LintFlake8Records ==
    { JDict([line_number |-> 4, column_number |-> 2, text |-> "t", code |-> "E501"]),
      JDict([column_number |-> 2, text |-> "t", code |-> "E501"]),
      JDict([line_number |-> 4, text |-> "t", code |-> "E501"]),
      JDict([text |-> "t", code |-> "E501"]) }

LintEslintMessages ==
    { JDict([severity |-> 2, line |-> 5, column |-> 6, message |-> "m"]),
      JDict([severity |-> 2, column |-> 6, message |-> "m"]),
      JDict([severity |-> 2, line |-> 5, message |-> "m"]),
      JDict([severity |-> 2, message |-> "m"]) }

\* answers with a record without a line and with a record with a line
LintAnswers == {WarningAnswer, OneIssueAnswer}

InitLint ==
    /\ code_content = <<"x", "\n">>
    /\ file_path \in PassPaths
    /\ issues = <<>>
    /\ response = Http(200, TRUE, <<>>)
    /\ linters = NoLinters
    /\ api_calls = 0
    /\ session = [use_static |-> TRUE, use_llm |-> TRUE, has_openai_api_key |-> TRUE,
                  analysis_results |-> NoResults]
    /\ ret = NoRet
    /\ typed = 0
    /\ pc = "input"

LintPylint == \E r \in LintPylintRecords : Prints("pylint", r)

LintFlake8 == \E r \in LintFlake8Records : Prints("flake8", r)

LintEslint == \E m \in LintEslintMessages : Prints("eslint", JDict([messages |-> <<m>>]))

LintAnswer == \E f \in LintAnswers : Answer(f, MaxPassInputs)

\* the pass's call run_static_analysis(content, filename)
Lint ==
    /\ pc = "input"
    /\ ret' = [kind |-> "issues",
               value |-> run_static_analysis(code_content, file_path, linters)]
    /\ pc' = "linted"
    /\ UNCHANGED <<code_content, file_path, issues, response, linters, api_calls, session, typed>>

NextLint ==
    \/ LintPylint
    \/ LintFlake8
    \/ LintEslint
    \/ LintAnswer
    \/ Lint
    \/ AnalysisPass

SpecLint == InitLint /\ [][NextLint]_vars

(***************************************************************************)
(* calculate_tech_debt_score called for one file after another.  The       *)
(* breakdown dicts live in a heap: ret.heap[a] is the dict at address a,   *)
(* and the entry the caller keeps for a file holds the address of the      *)
(* debt_details it was returned, next to the arguments of the call.        *)
(***************************************************************************)
MaxFileInputs == 3

MaxFiles == 2

FileFrags ==
    { <<"d","e","f"," ","f","(",")",":","\n">>,
      Indent \o <<"x", "\n">> }

FileIssues == { [line |-> 1, message |-> "m", severity |-> "error"] }

NoScores == [kind |-> "scores", heap |-> <<>>, tech_debt_scores |-> <<>>, all_issues |-> <<>>]

InitFiles ==
    /\ code_content = <<>>
    /\ file_path \in ScorePaths
    /\ issues = <<>>
    /\ response = NoResponse
    /\ linters = NoLinters
    /\ api_calls = 0
    /\ session = NoSession
    /\ ret = NoScores
    /\ typed = 0
    /\ pc = "input"

TypeFile == \E f \in FileFrags : Type(f, MaxFileInputs)

ReportFile == \E i \in FileIssues : Report(i, MaxFileInputs)

\* what the caller keeps of a call: the arguments, the overall score and the
\* address of the breakdown
Kept(content, filename, file_issues, overall, address) ==
    [file |-> filename, content |-> content, issues |-> file_issues,
     overall |-> overall, details |-> address]

\* a call that fills one module-level debt_details, at address 1, and
\* returns it
ScoreFile_shared_details ==
    /\ pc = "input"
    /\ Len(ret.tech_debt_scores) < MaxFiles
    /\ \E r \in {calculate_tech_debt_score(code_content, file_path, issues)} :
          ret' = [ret EXCEPT
                    !.heap = IF @ = <<>> THEN <<r.details>> ELSE [@ EXCEPT ![1] = r.details],
                    !.tech_debt_scores =
                        Append(@, Kept(code_content, file_path, issues, r.overall, 1)),
                    !.all_issues = @ \o issues]
    /\ code_content' = <<>>
    /\ issues' = <<>>
    /\ file_path' \in ScorePaths
    /\ UNCHANGED <<response, linters, api_calls, session, typed, pc>>

\* the call for the current file: debt_details is a dict created in the
\* call, at a new address; the caller keeps the result, extends all_issues
\* by the issue list it passed and goes on to the next file
ScoreFile ==
    /\ pc = "input"
    /\ Len(ret.tech_debt_scores) < MaxFiles
    /\ \E r \in {calculate_tech_debt_score(code_content, file_path, issues)} :
          ret' = [ret EXCEPT
                    !.heap = Append(@, r.details),
                    !.tech_debt_scores =
                        Append(@, Kept(code_content, file_path, issues, r.overall,
                                       Len(ret.heap) + 1)),
                    !.all_issues = @ \o issues]
    /\ code_content' = <<>>
    /\ issues' = <<>>
    /\ file_path' \in ScorePaths
    /\ UNCHANGED <<response, linters, api_calls, session, typed, pc>>

NextFiles == TypeFile \/ ReportFile \/ ScoreFile

SpecFiles == InitFiles /\ [][NextFiles]_vars

(***************************************************************************)
(* The scorer on texts with declarations, returns and closing braces       *)
(***************************************************************************)
MaxRegionFrags == 3

RegionFrags ==
    { <<"d","e","f"," ","f","(",")",":","\n">>,
      <<"r","e","t","u","r","n","\n">>,
      <<"r","e","t","u","r","n",";","\n">>,
      <<"r","e","t","u","r","n"," ","x","\n">>,
      <<"}","\n">>,
      <<"x","\n">>,
      <<" "," "," "," ">> }

TypeRegion == \E f \in RegionFrags : Type(f, MaxRegionFrags)

NextRegion == TypeRegion \/ Score

SpecRegion == Blank /\ [][NextRegion]_vars

(***************************************************************************)
(* The scorer on texts with repeated lines                                 *)
(***************************************************************************)
MaxDupFrags == 4

\* lines of eleven and of ten characters, another of eleven, an
\* indentation, a blank line
DupFrags ==
    { <<"a","b","c","d","e","f","g","h","i","j","k","\n">>,
      <<"a","b","c","d","e","f","g","h","i","j","\n">>,
      <<"k","j","i","h","g","f","e","d","c","b","a","\n">>,
      <<" ", " ">>,
      <<"\n">> }

TypeDup == \E f \in DupFrags : Type(f, MaxDupFrags)

NextDup == TypeDup \/ Score

SpecDup == Blank /\ [][NextDup]_vars

(***************************************************************************)
(* The scorer on texts with comments and docstring markers                 *)
(***************************************************************************)
MaxDocFrags == 3

DocFrags ==
    { <<"#"," ","c","\n">>,
      <<"/","/"," ","c","\n">>,
      <<"/","*"," ","c","\n">>,
      <<"\"","\"","\"","\n">>,
      <<"'","'","'","\n">>,
      <<"x","\n">>,
      <<" ", " ">> }

TypeDoc == \E f \in DocFrags : Type(f, MaxDocFrags)

NextDoc == TypeDoc \/ Score

SpecDoc == Blank /\ [][NextDoc]_vars

(***************************************************************************)
(* run_static_analysis with linters that print, stay silent or fail        *)
(***************************************************************************)
StaticPaths == {PyPath, JsPath, GoPath}

\* a file of another process in the temporary directory
OtherFiles == {"other"}

InitStatic ==
    /\ code_content \in PassTexts
    /\ file_path \in StaticPaths
    /\ issues = <<>>
    /\ response = NoResponse
    /\ linters = NoLinters
    /\ api_calls = 0
    /\ session = NoSession
    /\ ret = NoRet
    /\ typed = 0
    /\ pc = "input"

StaticAnalysis ==
    /\ pc = "input"
    /\ ret' = [kind |-> "static"] @@
              StaticAnalysisCall(code_content, file_path, linters, OtherFiles)
    /\ pc' = "returned"
    /\ UNCHANGED <<code_content, file_path, issues, response, linters, api_calls, session, typed>>

NextStatic ==
    \/ PylintPrints
    \/ Flake8Prints
    \/ EslintPrints
    \/ LinterFails
    \/ StaticAnalysis

SpecStatic == InitStatic /\ [][NextStatic]_vars

(***************************************************************************)
(* The dashboard session.  Streamlit runs the script of app.py from top to *)
(* bottom on every event: a rerun without a click, a click on              *)
(* Authenticate or Run Analysis, a submitted feedback form.  A button can  *)
(* be clicked only if the previous run drew it.  The pull request has one  *)
(* file, code_content at file_path.                                        *)
(***************************************************************************)
MaxReruns == 5

\* the state of a new session, lines 28-40; the attributes the Run Analysis
\* handler adds do not exist yet, has_openai_api_key stands for
\* hasattr(st.session_state, 'openai_api_key')
NewSession ==
    [authenticated |-> FALSE, current_repo |-> None, current_pr |-> None,
     analysis_results |-> NoResults, feedback_submitted |-> FALSE,
     has_openai_api_key |-> FALSE]

\* the Authenticate handler
Authenticate(sess, github_token) ==
    IF Truthy(github_token) THEN [sess EXCEPT !.authenticated = TRUE] ELSE sess

\* the Run Analysis handler accepts the click
Accepted(click) ==
    /\ Truthy(click.repo) /\ Truthy(click.pr_number)
    /\ click.use_static \/ click.use_llm \/ click.use_security
    /\ ~(click.use_llm /\ ~Truthy(click.openai_api_key))

\* the handler that stores the configuration and leaves the results of the
\* run before in place
RunAnalysis_keep_results(sess, click) ==
    IF Accepted(click)
    THEN [current_repo |-> click.repo, current_pr |-> click.pr_number,
          use_static |-> click.use_static, use_llm |-> click.use_llm,
          use_security |-> click.use_security,
          has_openai_api_key |-> sess.has_openai_api_key \/ Truthy(click.openai_api_key)]
         @@ sess
    ELSE sess

\* the Run Analysis handler
RunAnalysis(sess, click) ==
    IF Accepted(click)
    THEN [current_repo |-> click.repo, current_pr |-> click.pr_number,
          use_static |-> click.use_static, use_llm |-> click.use_llm,
          use_security |-> click.use_security,
          has_openai_api_key |-> sess.has_openai_api_key \/ Truthy(click.openai_api_key),
          analysis_results |-> NoResults, feedback_submitted |-> FALSE]
         @@ sess
    ELSE sess

\* the sidebar: the handler of the button that was clicked, if any
Sidebar(sess, event) ==
    IF ~sess.authenticated
    THEN IF event.kind = "authenticate" THEN Authenticate(sess, event.github_token)
         ELSE sess
    ELSE IF event.kind = "run_analysis" THEN RunAnalysis(sess, event.click)
         ELSE sess

\* the main content reaches the tabs
ShowsTabs(sess) ==
    sess.authenticated /\ Truthy(sess.current_repo) /\ Truthy(sess.current_pr)

\* the analysis pass of the run: fetched tells whether fetch_github_pr
\* returned the pull request; the outcome is the session after it and
\* whether the pass completed (it ends in st.stop() otherwise)
Pass(sess, fetched, resp) ==
    IF ~fetched THEN [session |-> sess, completed |-> FALSE]
    ELSE CHOOSE out \in
            { IF r.exc = "none"
              THEN [session |-> [sess EXCEPT !.analysis_results = StoredResults(r)],
                    completed |-> TRUE]
              ELSE [session |-> sess, completed |-> FALSE]
              : r \in {analyse_file(code_content, file_path, sess, linters, resp)} } : TRUE

\* the feedback tab: the form is drawn while no feedback was submitted
FeedbackTab(sess, event) ==
    IF ~sess.feedback_submitted /\ event.kind = "submit_feedback"
    THEN [sess EXCEPT !.feedback_submitted = TRUE]
    ELSE sess

\* one run of the script on the event: the session after it, the session
\* with which the main content was entered, whether a pass ran, whether it
\* completed
Script(sess, event, fetched, resp) ==
    LET entry == Sidebar(sess, event)
        runs == ShowsTabs(entry) /\ entry.analysis_results = NoResults
        pass == IF runs THEN Pass(entry, fetched, resp)
                ELSE [session |-> entry, completed |-> FALSE]
        stopped == runs /\ ~pass.completed
    IN  [session |-> IF ~ShowsTabs(entry) \/ stopped THEN pass.session
                     ELSE FeedbackTab(pass.session, event),
         entry |-> entry,
         ran |-> runs,
         completed |-> pass.completed]

\* what the user can enter next to the Run Analysis button
Clicks ==
    [repo : {"", "o/r"}, pr_number : {"7"}, use_static : BOOLEAN, use_llm : BOOLEAN,
     use_security : {FALSE}, openai_api_key : {"", "k"}]

\* what the API answers when the pass asks it: an issue list, or a record,
\* on which the pass raises
SessionAnswers == {Http(200, TRUE, OneIssueAnswer), Http(200, TRUE, RecordAnswer)}

InitSession ==
    /\ code_content = <<"#", " ", "T", "O", "D", "O", "\n">>
    /\ file_path = PyPath
    /\ issues = <<>>
    /\ response = NoResponse
    /\ linters = NoLinters
    /\ api_calls = 0
    /\ session = NewSession
    /\ ret = NoRet
    /\ typed = 0
    /\ pc = "input"

\* the script runs on the event; ret keeps what the run did
Rerun(event) ==
    /\ typed < MaxReruns
    /\ typed' = typed + 1
    /\ \E fetched \in BOOLEAN, resp \in SessionAnswers :
          \E run \in {Script(session, event, fetched, resp)} :
              /\ session' = run.session
              /\ response' = resp
              /\ ret' = [kind |-> "rerun", event |-> event.kind,
                         accepted |-> /\ event.kind = "run_analysis"
                                      /\ session.authenticated
                                      /\ Accepted(event.click),
                         before |-> session, entry |-> run.entry,
                         ran |-> run.ran, completed |-> run.completed]
    /\ UNCHANGED <<code_content, file_path, issues, linters, api_calls, pc>>

\* a widget other than the three buttons changed
PlainRerun == Rerun([kind |-> "none"])

\* the Authenticate button is drawn for a session that is not authenticated
AuthenticateClick ==
    /\ ~session.authenticated
    /\ \E github_token \in {"", "t"} :
          Rerun([kind |-> "authenticate", github_token |-> github_token])

\* the Run Analysis button is drawn for an authenticated session
RunAnalysisClick ==
    /\ session.authenticated
    /\ \E click \in Clicks : Rerun([kind |-> "run_analysis", click |-> click])

\* the feedback form is drawn when the run before reached the tabs with
\* results and no feedback
SubmitFeedback ==
    /\ ShowsTabs(session)
    /\ session.analysis_results # NoResults
    /\ ~session.feedback_submitted
    /\ Rerun([kind |-> "submit_feedback"])

NextSession == PlainRerun \/ AuthenticateClick \/ RunAnalysisClick \/ SubmitFeedback

SpecSession == InitSession /\ [][NextSession]_vars

(***************************************************************************)
(* The analysis pass on pull requests of several files                     *)
(***************************************************************************)
MaxPullFiles == 3

TxtPath == <<"a", ".", "t", "x", "t">>

TodoText == <<"#", " ", "T", "O", "D", "O", "\n">>

\* a file the pass analyses, and the same file with more than 1000 changes,
\* without a patch, with an empty patch, with content that is not
\* available, with empty content
FileVariants(filename) ==
    { [filename |-> filename, changes |-> 5, patch |-> "p", available |-> TRUE,
       content |-> TodoText],
      [filename |-> filename, patch |-> "p", available |-> TRUE, content |-> TodoText],
      [filename |-> filename, changes |-> 1001, patch |-> "p", available |-> TRUE,
       content |-> TodoText],
      [filename |-> filename, changes |-> 5, available |-> TRUE, content |-> TodoText],
      [filename |-> filename, changes |-> 5, patch |-> "", available |-> TRUE,
       content |-> TodoText],
      [filename |-> filename, changes |-> 5, patch |-> "p", available |-> FALSE,
       content |-> <<>>],
      [filename |-> filename, changes |-> 5, patch |-> "p", available |-> TRUE,
       content |-> <<>>] }

PullFiles == FileVariants(PyPath) \cup FileVariants(JsPath) \cup FileVariants(TxtPath)

NoFiles == [kind |-> "files", files_data |-> <<>>]

InitPull ==
    /\ code_content = <<>>
    /\ file_path = PyPath
    /\ issues = <<>>
    /\ response = NoFiles
    /\ linters = NoLinters
    /\ api_calls = 0
    /\ session \in { [use_static |-> TRUE, use_llm |-> l, has_openai_api_key |-> l,
                      analysis_results |-> NoResults] : l \in BOOLEAN }
    /\ ret = NoRet
    /\ typed = 0
    /\ pc = "input"

\* the pull request has one more file; a path occurs once in files_data
AddFile ==
    /\ pc = "input"
    /\ typed < MaxPullFiles
    /\ typed' = typed + 1
    /\ \E file \in PullFiles :
          /\ \A k \in DOMAIN response.files_data :
                response.files_data[k].filename # file.filename
          /\ response' = [response EXCEPT !.files_data = Append(@, file)]
    /\ UNCHANGED <<code_content, file_path, issues, linters, api_calls, session, ret, pc>>

\* the pass over the files; the API answers every request with one issue
PullPass ==
    /\ pc = "input"
    /\ response.files_data # <<>>
    /\ \E r \in {PassOverFiles(response.files_data, session, linters,
                               Http(200, TRUE, OneIssueAnswer))} :
          /\ ret' = [kind |-> "pass", exc |-> r.exc, skipped |-> FALSE]
          /\ session' = IF r.exc = "none"
                        THEN [session EXCEPT !.analysis_results =
                                 [none |-> FALSE, issues |-> r.all_issues,
                                  tech_debt_scores |-> r.tech_debt_scores,
                                  code_contents |-> r.code_contents]]
                        ELSE session
    /\ pc' = "analysed"
    /\ UNCHANGED <<code_content, file_path, issues, response, linters, api_calls, typed>>

NextPull == AddFile \/ PullPass

SpecPull == InitPull /\ [][NextPull]_vars

(***************************************************************************)
(* Saving analyses and loading the summary.  session is the data           *)
(* directory; ret keeps the last call of each function with its arguments, *)
(* the value it returned and the directory before it.                      *)
(***************************************************************************)
MaxStoreCalls == 3

\* the first day of the clock and the largest number of days kept
FirstDay == 2

EmptyDir ==
    [files |-> {}, summary |-> [state |-> "absent", entries |-> <<>>, mtime |-> <<0, 0>>],
     now |-> <<FirstDay, 0>>]

Repos == {"o/r", "p/q"}

\* results without scores, of one file, of two files
StoreResults ==
    { [issues |-> <<>>],
      [issues |-> <<[line |-> 1]>>, review_time |-> 30,
       tech_debt_scores |-> (PyPath :> [overall |-> R(40)])],
      [issues |-> <<[line |-> 1], [line |-> 2]>>, review_time |-> 30,
       tech_debt_scores |-> (PyPath :> [overall |-> R(40)]) @@ (JsPath :> [overall |-> R(15)])] }

Writes == {"ok", "refused", "cut"}

InitStore ==
    /\ code_content = <<>>
    /\ file_path = PyPath
    /\ issues = <<>>
    /\ response = NoResponse
    /\ linters = NoLinters
    /\ api_calls = 0
    /\ session = EmptyDir
    /\ ret = NoRet
    /\ typed = 0
    /\ pc = "input"

\* the clock goes on: within the second, to the start of the next day, or
\* by a whole day
Tick(maxsteps) ==
    /\ pc # "done"
    /\ typed < maxsteps
    /\ typed' = typed + 1
    /\ \E t \in {<<session.now[1], 5>>, <<session.now[1] + 1, 0>>,
                 <<session.now[1] + 1, session.now[2]>>} :
          /\ TimeLess(session.now, t)
          /\ session' = [session EXCEPT !.now = t]
    /\ UNCHANGED <<code_content, file_path, issues, response, linters, api_calls, ret, pc>>

\* a call save_analysis_results(repo, pr_number, results)
SaveAnalysis(repo, pr_number, results, file_write, summary_write, maxsteps) ==
    /\ pc # "done"
    /\ typed < maxsteps
    /\ typed' = typed + 1
    /\ \E r \in {save_analysis_results(session, repo, pr_number, results,
                                       file_write, summary_write)} :
          /\ session' = r.dir
          /\ ret' = [kind |-> "saved", repo |-> repo, pr_number |-> pr_number,
                     results |-> results, value |-> r.value, before |-> session]
    /\ pc' = "saved"
    /\ UNCHANGED <<code_content, file_path, issues, response, linters, api_calls>>

\* a call load_previous_analyses(repo) with the repository of the save
\* before it
LoadPrevious ==
    /\ pc = "saved"
    /\ ret' = [ret EXCEPT !.kind = "loaded"] @@
              [loaded |-> load_previous_analyses(session, ret.repo),
               earlier |-> load_previous_analyses(ret.before, ret.repo)]
    /\ pc' = "done"
    /\ UNCHANGED <<code_content, file_path, issues, response, linters, api_calls, session, typed>>

TickStore == Tick(MaxStoreCalls)

SaveStore ==
    \E repo \in Repos, results \in StoreResults, summary_write \in Writes,
       file_write \in {"ok", "refused"} :
        SaveAnalysis(repo, "7", results, file_write, summary_write, MaxStoreCalls)

NextStore == TickStore \/ SaveStore \/ LoadPrevious

SpecStore == InitStore /\ [][NextStore]_vars

(***************************************************************************)
(* Saving analyses and feedback and deleting old data                      *)
(***************************************************************************)
MaxDeleteSteps == 5

TickDelete == Tick(MaxDeleteSteps)

SaveDelete ==
    \E results \in {r \in StoreResults : Len(r.issues) = 1} :
        SaveAnalysis("o/r", "7", results, "ok", "ok", MaxDeleteSteps)

\* a call save_feedback(feedback)
SaveFeedback ==
    /\ pc # "done"
    /\ typed < MaxDeleteSteps
    /\ typed' = typed + 1
    /\ session' = save_feedback(session, [repository |-> "o/r", pr_number |-> "7"], "ok").dir
    /\ UNCHANGED <<code_content, file_path, issues, response, linters, api_calls, ret, pc>>

\* a call delete_old_data(days)
DeleteOld ==
    /\ pc # "done"
    /\ \E days \in 0..FirstDay, write \in Writes :
          \E r \in {delete_old_data(session, days, write)} :
              /\ session' = r.dir
              /\ ret' = [kind |-> "deleted", days |-> days, value |-> r.value,
                         before |-> session]
    /\ pc' = "done"
    /\ UNCHANGED <<code_content, file_path, issues, response, linters, api_calls, typed>>

NextDelete == TickDelete \/ SaveDelete \/ SaveFeedback \/ DeleteOld

SpecDelete == InitStore /\ [][NextDelete]_vars

(***************************************************************************)
(* The scorer called on one text with two issue lists.  issues is the      *)
(* first list and session the second; ret keeps the two results.           *)
(***************************************************************************)
MaxAppendInputs == 5

\* the records of SmellIssues that have one of the three severities or none,
\* and an error record with other fields
AppendIssues ==
    {i \in SmellIssues : Get(i, "severity", None) # "critical"}
        \cup {[line |-> 2, message |-> "n", severity |-> "error", rule |-> "r"]}

InitAppend ==
    /\ code_content = <<>>
    /\ file_path = PyPath
    /\ issues = <<>>
    /\ response = NoResponse
    /\ linters = NoLinters
    /\ api_calls = 0
    /\ session = <<>>
    /\ ret = NoRet
    /\ typed = 0
    /\ pc = "input"

TypeAppend == \E f \in SmellFrags : Type(f, MaxAppendInputs)

ReportFirst == \E i \in AppendIssues : Report(i, MaxAppendInputs)

\* the caller appends an issue record to the second issue list
ReportSecond ==
    /\ pc = "input"
    /\ typed < MaxAppendInputs
    /\ typed' = typed + 1
    /\ \E i \in AppendIssues : session' = Append(session, i)
    /\ UNCHANGED <<code_content, file_path, issues, response, linters, api_calls, ret, pc>>

\* calculate_tech_debt_score is called with the first list and with the
\* second
ScoreTwice ==
    /\ pc = "input"
    /\ ret' = [kind |-> "scores",
               first |-> calculate_tech_debt_score(code_content, file_path, issues),
               second |-> calculate_tech_debt_score(code_content, file_path, session)]
    /\ pc' = "scored"
    /\ UNCHANGED <<code_content, file_path, issues, response, linters, api_calls, session, typed>>

NextAppend == TypeAppend \/ ReportFirst \/ ReportSecond \/ ScoreTwice

SpecAppend == InitAppend /\ [][NextAppend]_vars

(***************************************************************************)
(* Properties of the scorer                                                *)
(***************************************************************************)
Scored == pc = "scored"

InRange(x) == RLe(R(0), x) /\ RLe(x, R(100))

\* C1: each of the five category scores and the overall score that
\* calculate_tech_debt_score returns is between 0 and 100 inclusive.
C1_ScoresInRange ==
    Scored =>
        /\ \A k \in DOMAIN Categories : InRange(ret.details[Categories[k]])
        /\ InRange(ret.overall)

\* a text whose issues weigh more than 100 per cent of its lines is scored:
\* code_smells is held at 100
C1_Witness ==
    /\ Scored
    /\ Len(splitlines(code_content)) > 0
    /\ SeverityCount(issues, "error") * 500 > 100 * Len(splitlines(code_content))
    /\ ret.details.code_smells = R(100)
    /\ ret.overall # R(0)

\* C2: the overall score equals 0.25*complexity + 0.20*duplication +
\* 0.15*documentation + 0.25*code_smells + 0.15*test_coverage of the
\* breakdown returned with it, and the five weights sum to 1.
C2_OverallIsWeightedSum ==
    /\ Scored =>
          ret.overall =
              RAdd(RMul(<<25, 100>>, ret.details.complexity),
              RAdd(RMul(<<20, 100>>, ret.details.duplication),
              RAdd(RMul(<<15, 100>>, ret.details.documentation),
              RAdd(RMul(<<25, 100>>, ret.details.code_smells),
                   RMul(<<15, 100>>, ret.details.test_coverage)))))
    /\ RAdd(weights.complexity,
       RAdd(weights.duplication,
       RAdd(weights.documentation,
       RAdd(weights.code_smells, weights.test_coverage)))) = R(1)

\* a text is scored whose five categories are all positive and differ
C2_Witness ==
    /\ Scored
    /\ \A k \in DOMAIN Categories : ret.details[Categories[k]] # R(0)
    /\ ret.details.complexity # ret.details.duplication
    /\ ret.details.code_smells # R(100)

\* C3: on the empty text the overall score and all five category scores are
\* 0, whatever the file path and the issue list.
C3_EmptyTextScoresZero ==
    (Scored /\ code_content = <<>>) =>
        /\ ret.overall = R(0)
        /\ \A k \in DOMAIN Categories : ret.details[Categories[k]] = R(0)

\* the empty text is scored with a path that is no test file and an issue
\* list that holds an error
C3_Witness ==
    /\ Scored
    /\ code_content = <<>>
    /\ file_path = PyPath
    /\ SeverityCount(issues, "error") > 0
    /\ ret.overall = R(0)

(***************************************************************************)
(* Properties of the pattern scanner                                       *)
(***************************************************************************)
Scanned == pc = "scanned"

\* the lines of the scanned text
ScannedLines == splitlines(code_content)

\* how many issues of the rule the scan reported at line number n
Reported(rule, n) ==
    Cardinality({k \in DOMAIN ret.value :
                    ret.value[k].rule = rule /\ ret.value[k].line = n})

\* the issues of the rule that the scan reported
IssuesOf(rule) == {ret.value[k] : k \in {j \in DOMAIN ret.value : ret.value[j].rule = rule}}

CredentialWords ==
    { <<"p","a","s","s","w","o","r","d">>, <<"s","e","c","r","e","t">>,
      <<"k","e","y">>, <<"t","o","k","e","n">> }

\* positions a..b of L hold only whitespace (none when b < a)
OnlyWs(L, a, b) == \A k \in a..b : L[k] \in Whitespace

\* a keyword, in any letter case, ends just before position j of L
WordEndsBefore(L, j) ==
    \E w \in CredentialWords :
        j - Len(w) >= 1 /\ Lower(SubSeq(L, j - Len(w), j - 1)) = w

\* L[q..e] is a non-empty literal closed by the quote that opened it; with
\* plain, no character between the two is a quote of either kind
QuotedLiteral(L, q, e, plain) ==
    /\ q >= 1 /\ e <= Len(L) /\ e > q + 1
    /\ L[q] \in Quotes /\ L[e] = L[q]
    /\ \A k \in (q + 1)..(e - 1) : IF plain THEN L[k] \notin Quotes ELSE L[k] # L[q]

\* in L a keyword is followed by a single "=" and a quoted literal
AssignsLiteral(L, plain) ==
    \E j \in 1..Len(L) :
        /\ WordEndsBefore(L, j)
        /\ \E eq \in j..Len(L) :
              /\ L[eq] = "="
              /\ OnlyWs(L, j, eq - 1)
              /\ \E q \in (eq + 1)..Len(L) :
                    /\ L[q] \in Quotes
                    /\ OnlyWs(L, eq + 1, q - 1)
                    /\ \E e \in (q + 2)..Len(L) : QuotedLiteral(L, q, e, plain)

\* in L a keyword is followed by "==" and a quoted literal
ComparesLiteral(L) ==
    \E j \in 1..Len(L) :
        /\ WordEndsBefore(L, j)
        /\ \E eq \in j..(Len(L) - 1) :
              /\ L[eq] = "=" /\ L[eq + 1] = "="
              /\ OnlyWs(L, j, eq - 1)
              /\ \E q \in (eq + 2)..Len(L) :
                    /\ L[q] \in Quotes
                    /\ OnlyWs(L, eq + 2, q - 1)
                    /\ \E e \in (q + 2)..Len(L) : QuotedLiteral(L, q, e, TRUE)

\* some "=" of L has no "=" next to it
HasSingleEquals(L) ==
    \E k \in 1..Len(L) :
        /\ L[k] = "="
        /\ ~(k > 1 /\ L[k - 1] = "=")
        /\ ~(k < Len(L) /\ L[k + 1] = "=")

\* C8: the scan reports a hardcoded-credential issue (severity error, column
\* 1, line = the line's number) exactly once for a line in which a keyword
\* is assigned a quoted literal (a quote, characters other than quotes, the
\* same quote) with a single "=", and none for a line in which the keyword
\* is followed by "==" and a quoted literal and no "=" stands alone.
C8_CredentialOncePerAssignment ==
    Scanned =>
        \A lines \in {ScannedLines} :
            /\ \A n \in 1..Len(lines) :
                  /\ AssignsLiteral(lines[n], TRUE)
                        => Reported("hardcoded-credential", n) = 1
                  /\ (ComparesLiteral(lines[n]) /\ ~HasSingleEquals(lines[n]))
                        => Reported("hardcoded-credential", n) = 0
            /\ \A i \in IssuesOf("hardcoded-credential") :
                  /\ i.severity = "error" /\ i.column = 1
                  /\ i.line \in 1..Len(lines)

\* a credential assigned on the second line is reported once, at line 2
C8_Witness ==
    /\ Scanned
    /\ Len(ScannedLines) = 2
    /\ AssignsLiteral(ScannedLines[2], TRUE)
    /\ Reported("hardcoded-credential", 2) = 1
    /\ Reported("hardcoded-credential", 1) = 0

\* a comparison with "==" is scanned and reports nothing
C8_ComparisonScanned ==
    /\ Scanned
    /\ Len(ScannedLines) = 1
    /\ ComparesLiteral(ScannedLines[1])
    /\ ret.value = <<>>

\* C9: the scan reports a hardcoded-credential issue for a line only when
\* the literal after "=" is non-empty and closed by the quote character that
\* opened it.
C9_OnlyMatchingQuotes ==
    Scanned =>
        \A lines \in {ScannedLines} :
            \A i \in IssuesOf("hardcoded-credential") :
                AssignsLiteral(lines[i.line], FALSE)

\* C10: for each line the scan reports exactly one line-length issue
\* (severity info, column 101, line = the line's number) if the line has
\* more than 100 characters and none if it has 100 characters or fewer.
C10_LineLength ==
    Scanned =>
        \A lines \in {ScannedLines} :
            /\ \A n \in 1..Len(lines) :
                  Reported("line-length", n) = IF Len(lines[n]) > 100 THEN 1 ELSE 0
            /\ \A i \in IssuesOf("line-length") :
                  /\ i.severity = "info" /\ i.column = 101
                  /\ i.line \in 1..Len(lines)

\* a first line of exactly 100 characters is not reported and a second line
\* of 101 characters is reported at line 2
C10_Witness ==
    /\ Scanned
    /\ Len(ScannedLines) = 2
    /\ Len(ScannedLines[1]) = 100
    /\ Len(ScannedLines[2]) = 101
    /\ Reported("line-length", 1) = 0
    /\ Reported("line-length", 2) = 1

(***************************************************************************)
(* Properties of run_llm_analysis                                          *)
(***************************************************************************)
Asked == pc = "asked"

\* C6: run_llm_analysis on a text longer than 10,000 characters returns
\* exactly one issue, with severity info and line 1, and makes no request to
\* the API; on a text of 10,000 characters or fewer it is not short-circuited:
\* it makes the request.
C6_SizeGuard ==
    Asked =>
        IF Len(code_content) > 10000
        THEN /\ api_calls = 0
             /\ ret.exc = "none"
             /\ ret.value.type = "list"
             /\ Len(ret.value.v) = 1
             /\ ret.value.v[1].type = "dict"
             /\ ret.value.v[1].v.severity = "info"
             /\ ret.value.v[1].v.line = 1
        ELSE api_calls = 1

\* a text of 10,001 characters was answered without a request
C6_Witness ==
    /\ Asked
    /\ Len(code_content) = 10001
    /\ api_calls = 0
    /\ Len(ret.value.v) = 1

\* a text of exactly 10,000 characters went to the API, which answered with
\* an issue list that was returned
C6_AtLimitAsked ==
    /\ Asked
    /\ Len(code_content) = 10000
    /\ api_calls = 1
    /\ response = Http(200, TRUE, OneIssueAnswer)
    /\ ret.value.type = "list"
    /\ Len(ret.value.v) = 1
    /\ ret.value.v[1].v.line = 2

\* the value is a list of issue records
IsIssueList(value) ==
    /\ value.type = "list"
    /\ \A k \in 1..Len(value.v) : value.v[k].type = "dict"

\* C7: run_llm_analysis never raises and always returns a list of issue
\* records; on a failed request, a non-200 status, or a content that cannot be
\* extracted as a list of issue records (unparsable, or parsing to something
\* other than a list of records) the result is the empty list.
C7_AlwaysIssueList ==
    Asked =>
        /\ ret.exc = "none"
        /\ IsIssueList(ret.value)
        /\ /\ api_calls = 1
           /\ \/ response.kind = "raise"
              \/ response.status_code # 200
              \/ ~response.has_content
           => ret.value.v = <<>>

\* the part of C7 the code keeps: no exception leaves run_llm_analysis, and a
\* failed request, a non-200 status and an unparsable content give []
C7_NeverRaises ==
    Asked =>
        /\ ret.exc = "none"
        /\ /\ api_calls = 1
           /\ \/ response.kind = "raise"
              \/ response.status_code # 200
              \/ ~response.has_content
              \/ ~json_loads(issues_json(response.content)).ok
           => ret.value = JList(<<>>)

(***************************************************************************)
(* Properties of the analysis pass                                         *)
(***************************************************************************)
\* the pass has scored and stored the file
Analysed == pc = "analysed" /\ ret.exc = "none" /\ ~ret.skipped

Severities == {"error", "warning", "info"}

PassExtension == Lower(splitext(file_path)[2])

\* the language model was asked about the file
LLMRan == session.use_llm /\ session.has_openai_api_key

\* what run_llm_analysis returned to the pass
LLMResults == run_llm_analysis(code_content, file_path, response).value

\* C4: every issue record an analysis pass hands to calculate_tech_debt_score
\* and to the stored results, whatever its source, has a severity that is one
\* of error, warning, info; any other raw severity is normalized to info.
C4_SeverityEnumerated ==
    Analysed =>
        /\ \A k \in DOMAIN issues : issues[k].severity \in Severities
        /\ \A k \in DOMAIN session.analysis_results.issues :
              session.analysis_results.issues[k].severity \in Severities

\* the part of C4 the code keeps: the issues of the pattern scanner and of
\* the linters have one of the three severities
C4_StaticSeverityEnumerated ==
    Analysed =>
        \A k \in DOMAIN issues :
            issues[k].type = "static" => issues[k].severity \in Severities

\* pylint's k-th value is a record that the loop reached
PylintReached(k) ==
    /\ session.use_static
    /\ PassExtension = <<".", "p", "y">>
    /\ k \in DOMAIN linters.pylint.items
    /\ \A j \in 1..k : linters.pylint.items[j].type = "dict"

\* a pylint record without a type becomes an issue of the severity
PylintDefault(severity) ==
    \A k \in DOMAIN linters.pylint.items :
        PylintReached(k) /\ "type" \notin DOMAIN linters.pylint.items[k].v
            => issues[k].severity = severity

\* ESLint's k-th file result holds one message, a record, that the loop reached
EslintReached(k) ==
    /\ session.use_static
    /\ PassExtension \in eslint_extensions
    /\ k \in DOMAIN linters.eslint.items
    /\ \A j \in 1..k : /\ "messages" \in DOMAIN linters.eslint.items[j].v
                       /\ linters.eslint.items[j].v.messages[1].type = "dict"

\* an ESLint message without a severity becomes an issue of the severity
EslintDefault(severity) ==
    \A k \in DOMAIN linters.eslint.items :
        /\ EslintReached(k)
        /\ "severity" \notin DOMAIN linters.eslint.items[k].v.messages[1].v
        => issues[k].severity = severity

\* the k-th issue of the language model, a record without a severity
LLMWithoutSeverity(k) ==
    /\ LLMRan
    /\ LLMResults.type = "list"
    /\ k \in DOMAIN LLMResults.v
    /\ "severity" \notin DOMAIN LLMResults.v[k].v

\* a language-model record without a severity becomes an issue of the severity
LLMDefault(severity) ==
    \A k \in 1..Len(issues) :
        LLMWithoutSeverity(k)
            => issues[Len(issues) - Len(LLMResults.v) + k].severity = severity

C5_PylintWithoutType ==
    /\ Analysed
    /\ PylintReached(1)
    /\ "type" \notin DOMAIN linters.pylint.items[1].v
    /\ issues[1].severity = "info"

\* a pass in which the language model's record has no severity
C5_LLMWithoutSeverity ==
    /\ Analysed
    /\ LLMWithoutSeverity(1)
    /\ issues[Len(issues)].type = "llm"
    /\ issues[Len(issues)].severity = "info"

\* the file-type hint of the scan
ScannedExtension == Lower(splitext(file_path)[2])

\* the text s holds catch, whitespace, a parenthesis closed by the first ")"
\* after it, whitespace, and braces around nothing but whitespace
HasEmptyHandler(s) ==
    \E i \in 1..(Len(s) - 4) :
        /\ SubSeq(s, i, i + 4) = <<"c", "a", "t", "c", "h">>
        /\ \E p \in (i + 5)..Len(s) :
              /\ s[p] = "(" /\ OnlyWs(s, i + 5, p - 1)
              /\ \E q \in (p + 1)..Len(s) :
                    /\ s[q] = ")" /\ \A k \in (p + 1)..(q - 1) : s[k] # ")"
                    /\ \E b \in (q + 1)..Len(s) :
                          /\ s[b] = "{" /\ OnlyWs(s, q + 1, b - 1)
                          /\ \E c \in (b + 1)..Len(s) :
                                s[c] = "}" /\ OnlyWs(s, b + 1, c - 1)

\* the number of issues of the rule that the scan reported
CountOf(rule) == Cardinality({k \in DOMAIN ret.value : ret.value[k].rule = rule})

\* C11: the scan reports an empty-catch issue only when the file-type hint is
\* one of the checked extensions and the text, its lines joined into one
\* string, holds a catch(...) followed by braces around only whitespace; it
\* reports at most one such issue per scan, with severity warning, line 1 and
\* column 1, also when the braces are on different lines.
C11_EmptyCatch ==
    Scanned =>
        \A lines \in {ScannedLines} :
            /\ CountOf("empty-catch") =
                  IF /\ ScannedExtension \in
                          { <<".", "p", "y">>, <<".", "j", "s">>, <<".", "j", "s", "x">>,
                            <<".", "t", "s">>, <<".", "t", "s", "x">>,
                            <<".", "j", "a", "v", "a">> }
                     /\ HasEmptyHandler(JoinSpace(lines))
                  THEN 1 ELSE 0
            /\ \A i \in IssuesOf("empty-catch") :
                  i.severity = "warning" /\ i.line = 1 /\ i.column = 1

\* a handler that opens its braces on line 1 and closes them on line 2 is
\* reported once
C11_Witness ==
    /\ Scanned
    /\ Len(ScannedLines) = 2
    /\ ScannedLines[1] # <<>>
    /\ ScannedLines[1][Len(ScannedLines[1])] = "{"
    /\ ScannedLines[2] = <<"}">>
    /\ CountOf("empty-catch") = 1

\* a text with two empty handlers is reported once
C11_TwoHandlers ==
    /\ Scanned
    /\ code_content = EmptyHandler \o EmptyHandler
    /\ CountOf("empty-catch") = 1

\* the same handler under a hint that is not checked is not reported
C11_Unchecked ==
    /\ Scanned
    /\ file_path = GoPath
    /\ HasEmptyHandler(JoinSpace(ScannedLines))
    /\ CountOf("empty-catch") = 0

\* the word w, in any letter case, stands at position i of L with no letter,
\* digit or underscore next to it
WholeWordAt(L, i, w) ==
    /\ i + Len(w) - 1 <= Len(L)
    /\ Lower(SubSeq(L, i, i + Len(w) - 1)) = w
    /\ i > 1 => L[i - 1] \notin WordChars
    /\ i + Len(w) <= Len(L) => L[i + Len(w)] \notin WordChars

\* the positions of L at which TODO or FIXME stands as a whole word
TodoTokens(L) ==
    {i \in 1..Len(L) : \/ WholeWordAt(L, i, <<"t", "o", "d", "o">>)
                       \/ WholeWordAt(L, i, <<"f", "i", "x", "m", "e">>)}

\* C12: the scan reports exactly one todo-comment issue (severity info,
\* column 1, line = the line's number) for each line that holds TODO or FIXME
\* as a whole word in any letter case, however many such tokens the line has,
\* and none for a line where the letters occur only inside a longer word.
C12_TodoOncePerLine ==
    Scanned =>
        \A lines \in {ScannedLines} :
            /\ \A n \in 1..Len(lines) :
                  Reported("todo-comment", n) = IF TodoTokens(lines[n]) # {} THEN 1 ELSE 0
            /\ \A i \in IssuesOf("todo-comment") :
                  /\ i.severity = "info" /\ i.column = 1
                  /\ i.line \in 1..Len(lines)

\* a second line with two tokens is reported once, at line 2
C12_Witness ==
    /\ Scanned
    /\ Len(ScannedLines) = 2
    /\ Cardinality(TodoTokens(ScannedLines[2])) = 2
    /\ Reported("todo-comment", 1) = 0
    /\ Reported("todo-comment", 2) = 1

\* a line with the letters inside a longer word is not reported
C12_InsideWord ==
    /\ Scanned
    /\ code_content = <<"x", "T", "o", "D", "o", "_">>
    /\ CountOf("todo-comment") = 0

\* the issue the pass made of the k-th record of the language model
LLMIssue(k) == issues[Len(issues) - Len(LLMResults.v) + k]

\* C17: a language-model issue produced by the analysis pass carries a
\* suggested_fix field exactly when the upstream record has a fix field; when
\* the upstream record has no fix, the issue has no suggested_fix field.
C17_SuggestedFixWhenUpstream ==
    Analysed /\ LLMRan /\ LLMResults.type = "list" =>
        \A k \in DOMAIN LLMResults.v :
            "suggested_fix" \in DOMAIN LLMIssue(k) <=> "fix" \in DOMAIN LLMResults.v[k].v

\* what the pass does: every language-model issue carries suggested_fix, the
\* upstream fix when there is one and the empty string when there is none
C17_SuggestedFixAlways ==
    Analysed /\ LLMRan /\ LLMResults.type = "list" =>
        \A k \in DOMAIN LLMResults.v :
            /\ "suggested_fix" \in DOMAIN LLMIssue(k)
            /\ LLMIssue(k).suggested_fix = Get(LLMResults.v[k].v, "fix", "")

\* an upstream record without a fix became an issue with an empty suggested_fix
C17_EmptyFixAdded ==
    /\ Analysed /\ LLMRan /\ LLMResults.type = "list"
    /\ \E k \in DOMAIN LLMResults.v :
          /\ "fix" \notin DOMAIN LLMResults.v[k].v
          /\ LLMIssue(k).suggested_fix = ""

(***************************************************************************)
(* Properties of the scorer's categories                                   *)
(***************************************************************************)
\* the text s holds the lower-case word w in some letter case
HoldsAnyCase(s, w) ==
    \E i \in 1..(Len(s) - Len(w) + 1) : Lower(SubSeq(s, i, i + Len(w) - 1)) = w

\* the path names a test or a spec
IsTestPath(path) ==
    \/ HoldsAnyCase(path, <<"t", "e", "s", "t">>)
    \/ HoldsAnyCase(path, <<"s", "p", "e", "c">>)

\* the text names one of the test frameworks
NamesFramework(s) ==
    \E w \in { <<"u", "n", "i", "t", "t", "e", "s", "t">>, <<"p", "y", "t", "e", "s", "t">>,
               <<"j", "e", "s", "t">>, <<"m", "o", "c", "h", "a">>,
               <<"t", "e", "s", "t">> } : HoldsAnyCase(s, w)

\* C13: for a non-empty text, test_coverage is 0 when the path holds test or
\* spec in any letter case, whatever the text; otherwise 30 when the text
\* holds, in any letter case, the name of one of the test frameworks;
\* otherwise 50; no other value is produced.
C13_TestCoverage ==
    Scored /\ code_content # <<>> =>
        ret.details.test_coverage =
            IF IsTestPath(file_path) THEN <<0, 1>>
            ELSE IF NamesFramework(code_content) THEN <<30, 1>>
            ELSE <<50, 1>>

\* a text that names JEST in upper case, under a path that names no test
C13_Witness ==
    /\ Scored
    /\ file_path = PyPath
    /\ HoldsAnyCase(code_content, <<"j", "e", "s", "t">>)
    /\ ~HoldsAnyCase(code_content, <<"t", "e", "s", "t">>)
    /\ ret.details.test_coverage = <<30, 1>>

\* the same kind of text under a path with Spec in it
C13_SpecPath ==
    /\ Scored
    /\ file_path = <<"a", "/", "S", "p", "e", "c", ".", "j", "s">>
    /\ NamesFramework(code_content)
    /\ ret.details.test_coverage = <<0, 1>>

\* a text that names no framework, under a path that names no test
C13_Default ==
    /\ Scored
    /\ file_path = PyPath
    /\ code_content # <<>>
    /\ ret.details.test_coverage = <<50, 1>>

\* the number of issues handed to the scorer that have the severity
Having(severity) ==
    Cardinality({k \in DOMAIN issues :
                    "severity" \in DOMAIN issues[k] /\ issues[k].severity = severity})

\* the number of issues handed to the scorer that have no severity
WithoutSeverity == Cardinality({k \in DOMAIN issues : "severity" \notin DOMAIN issues[k]})

\* the rational score equals min(100, weighted / total_lines * 100)
IsSmellsScore(score, weighted, total_lines) ==
    IF weighted * 100 >= 100 * total_lines
    THEN score = <<100, 1>>
    ELSE score[1] * total_lines = weighted * 100 * score[2]

\* C14: for a non-empty text of total_lines lines and an issue list with e
\* errors, w warnings and i infos, code_smells equals
\* min(100, (5*e + 2*w + i) / total_lines * 100); for total_lines = 10, e = 1,
\* w = 1, i = 0 it is 70.
C14_CodeSmells ==
    Scored /\ code_content # <<>> =>
        /\ IsSmellsScore(ret.details.code_smells,
                         5 * Having("error") + 2 * Having("warning") + Having("info"),
                         Len(splitlines(code_content)))
        /\ /\ Len(splitlines(code_content)) = 10
           /\ Having("error") = 1 /\ Having("warning") = 1 /\ Having("info") = 0
           => ret.details.code_smells = <<70, 1>>

\* ten lines with one error and one warning score 70
C14_Witness ==
    /\ Scored
    /\ Len(splitlines(code_content)) = 10
    /\ Len(issues) = 2
    /\ Having("error") = 1 /\ Having("warning") = 1
    /\ ret.details.code_smells = <<70, 1>>

\* C15: the scorer does not fail on an issue record without the severity
\* field and treats it as an info issue: the record adds 1 to the weighted
\* issue count of code_smells.
C15_MissingSeverityCountsAsInfo ==
    Scored /\ code_content # <<>> =>
        IsSmellsScore(ret.details.code_smells,
                      5 * Having("error") + 2 * Having("warning") + Having("info")
                      + WithoutSeverity,
                      Len(splitlines(code_content)))

\* the scorer returned on an issue list that holds a record without severity
C15_ScoredWithoutSeverity ==
    /\ Scored
    /\ code_content # <<>>
    /\ WithoutSeverity = 1
    /\ Len(issues) = 1
    /\ ret.details.code_smells = <<0, 1>>

(***************************************************************************)
(* Properties of repeated calls                                            *)
(***************************************************************************)
Rescanned == pc = "rescanned"

Linted == pc = "linted"

IsPython == PassExtension = <<".", "p", "y">>

\* the raw records of the linters in the order run_static_analysis reads
\* them: pylint's, then flake8's, or the one message of each ESLint result
RawRecords ==
    IF IsPython
    THEN [k \in DOMAIN linters.pylint.items |-> linters.pylint.items[k].v]
         \o [k \in DOMAIN linters.flake8.items |-> linters.flake8.items[k].v]
    ELSE [k \in DOMAIN linters.eslint.items |-> linters.eslint.items[k].v.messages[1].v]

\* the keys under which the raw record k holds its line and its column
LineKey(k) ==
    IF IsPython /\ k > Len(linters.pylint.items) THEN "line_number" ELSE "line"

ColumnKey(k) ==
    IF IsPython /\ k > Len(linters.pylint.items) THEN "column_number" ELSE "column"

\* the type of pylint's k-th record, the empty string when it has none
TypeOf(k) ==
    IF "type" \in DOMAIN linters.pylint.items[k].v
    THEN linters.pylint.items[k].v.type ELSE ""

\* C18: map_pylint_severity returns one of error, warning, info for every
\* input: error for the types error and fatal, warning for the types warning
\* and refactor, info for every other input, the empty string of a record
\* without a type included.
C18_PylintSeverity ==
    Linted /\ IsPython =>
        \A k \in DOMAIN linters.pylint.items :
            /\ ret.value[k].severity \in Severities
            /\ TypeOf(k) \in {"error", "fatal"} <=> ret.value[k].severity = "error"
            /\ TypeOf(k) \in {"warning", "refactor"} <=> ret.value[k].severity = "warning"

\* a record of type refactor and a record without a type were mapped to
\* warning and info
C18_Witness ==
    /\ Linted /\ IsPython
    /\ Len(linters.pylint.items) = 2
    /\ TypeOf(1) = "refactor" /\ ret.value[1].severity = "warning"
    /\ "type" \notin DOMAIN linters.pylint.items[2].v /\ ret.value[2].severity = "info"

\* a record of type fatal and a record of type convention were mapped to
\* error and info
C18_FatalConvention ==
    /\ Linted /\ IsPython
    /\ Len(linters.pylint.items) = 2
    /\ TypeOf(1) = "fatal" /\ ret.value[1].severity = "error"
    /\ TypeOf(2) = "convention" /\ ret.value[2].severity = "info"

\* C19: the issue run_static_analysis makes of a raw linter record without
\* a line has line 0, of one without a column has column 0, and the analysis
\* pass gives line 0 to a raw record of any source without a line.
C19_MissingLineColumn ==
    /\ Linted =>
          \A k \in DOMAIN RawRecords :
              /\ LineKey(k) \notin DOMAIN RawRecords[k] => ret.value[k].line = 0
              /\ ColumnKey(k) \notin DOMAIN RawRecords[k] => ret.value[k].column = 0
    /\ Analysed =>
          /\ \A k \in DOMAIN RawRecords :
                LineKey(k) \notin DOMAIN RawRecords[k] => issues[k].line = 0
          /\ LLMResults.type = "list" =>
                \A k \in DOMAIN LLMResults.v :
                    "line" \notin DOMAIN LLMResults.v[k].v => LLMIssue(k).line = 0

\* the pass stored line 0 for a flake8 record without line_number and for a
\* language-model record without line
C19_Witness ==
    /\ Analysed /\ IsPython
    /\ Len(linters.pylint.items) = 0
    /\ Len(linters.flake8.items) = 1
    /\ "line_number" \notin DOMAIN RawRecords[1]
    /\ LLMResults.type = "list" /\ Len(LLMResults.v) = 1
    /\ "line" \notin DOMAIN LLMResults.v[1].v
    /\ Len(issues) = 2
    /\ issues[1].line = 0 /\ issues[2].line = 0

\* run_static_analysis gave line 0 and column 0 to an ESLint message with neither
C19_EslintDefaults ==
    /\ Linted /\ ~IsPython
    /\ Len(linters.eslint.items) = 1
    /\ DOMAIN RawRecords[1] \cap {"line", "column"} = {}
    /\ ret.value[1].line = 0 /\ ret.value[1].column = 0

(***************************************************************************)
(* Properties of repeated scoring                                          *)
(***************************************************************************)
\* the result the caller holds for the k-th file, read now
HeldResult(k) ==
    [overall |-> ret.tech_debt_scores[k].overall,
     details |-> ret.heap[ret.tech_debt_scores[k].details]]

RECURSIVE PassedIssues(_)
\* the issue lists passed to the first k calls, one after another
PassedIssues(k) ==
    IF k = 0 THEN <<>> ELSE PassedIssues(k - 1) \o ret.tech_debt_scores[k].issues

C20_EqualInputs ==
    /\ ret.kind = "scores"
    /\ Len(ret.tech_debt_scores) = 2
    /\ ret.tech_debt_scores[1].content # <<>>
    /\ ret.tech_debt_scores[2].content = ret.tech_debt_scores[1].content
    /\ ret.tech_debt_scores[2].file = ret.tech_debt_scores[1].file
    /\ ret.tech_debt_scores[2].issues = ret.tech_debt_scores[1].issues
    /\ HeldResult(2) = HeldResult(1)
    /\ ret.tech_debt_scores[1].details # ret.tech_debt_scores[2].details

(***************************************************************************)
(* Properties of the complexity pass                                       *)
(***************************************************************************)
ScoredLines == splitlines(code_content)

\* the line begins, after leading whitespace, with the word followed by
\* whitespace
BeginsWithWord(line, word) ==
    /\ StartsWith(LStrip(line), word)
    /\ Len(LStrip(line)) > Len(word)
    /\ LStrip(line)[Len(word) + 1] \in Whitespace

\* a declaration line: def, function, class or interface, whitespace, a name
IsDeclaration(line) ==
    \E word \in { <<"d","e","f">>, <<"f","u","n","c","t","i","o","n">>,
                  <<"c","l","a","s","s">>, <<"i","n","t","e","r","f","a","c","e">> } :
        /\ BeginsWithWord(line, word)
        /\ LStrip(From(LStrip(line), Len(word) + 1)) # <<>>
        /\ LStrip(From(LStrip(line), Len(word) + 1))[1] \in WordChars

Declarations == {n \in DOMAIN ScoredLines : IsDeclaration(ScoredLines[n])}

LastDeclaration == CHOOSE d \in Declarations : \A e \in Declarations : e <= d

\* a closing line: a closing brace alone, or a line that begins with return
\* (any such line, or only one with whitespace after the word)
Closes(line, any_return) ==
    \/ Strip(line) = <<"}">>
    \/ IF any_return
       THEN StartsWith(LStrip(line), <<"r","e","t","u","r","n">>)
       ELSE BeginsWithWord(line, <<"r","e","t","u","r","n">>)

\* the line count of the most recently opened region: from its declaration
\* line to its closing line, or to the end of the text
LastRegionLines(any_return) ==
    IF Declarations = {} THEN 0
    ELSE LET closing == {n \in DOMAIN ScoredLines :
                            n > LastDeclaration /\ Closes(ScoredLines[n], any_return)}
         IN  IF closing = {} THEN Len(ScoredLines) - LastDeclaration + 1
             ELSE (CHOOSE c \in closing : \A e \in closing : c <= e) - LastDeclaration + 1

Indentation(line) == Len(line) - Len(LStrip(line))

\* the largest indentation of a line that is not blank
MaxIndent ==
    LET indents == {Indentation(ScoredLines[n]) :
                       n \in {m \in DOMAIN ScoredLines : LStrip(ScoredLines[m]) # <<>>}}
    IN  IF indents = {} THEN 0 ELSE CHOOSE i \in indents : \A j \in indents : j <= i

\* score = min(100, (max_indent / 4) * 20 + (region_lines / max(1, count)) / 5)
IsComplexityScore(score, max_indent, region_lines, count) ==
    LET n == Max(1, count)
    IN  IF 25 * max_indent * n + region_lines >= 500 * n
        THEN score = <<100, 1>>
        ELSE score[1] * 5 * n = (25 * max_indent * n + region_lines) * score[2]

\* C21: an open region is closed by a line that is a closing brace alone or
\* by any line that begins, after leading whitespace, with return, a bare
\* return line and return; included; the lines after the closing line are
\* not counted into the region.
C21_AnyReturnCloses ==
    Scored /\ code_content # <<>> =>
        IsComplexityScore(ret.details.complexity, MaxIndent, LastRegionLines(TRUE),
                          Cardinality(Declarations))

\* a region was closed by a bare return line in the claim's reading, and the
\* score counts the line after it
C21_BareReturnCounted ==
    /\ Scored
    /\ Len(ScoredLines) = 3
    /\ Declarations = {1}
    /\ ScoredLines[2] = <<"r","e","t","u","r","n">>
    /\ ret.details.complexity = <<3, 5>>

\* C22: for a non-empty text the complexity score equals
\* min(100, (max_indent / 4) * 20 + (L / max(1, N)) / 5) with max_indent the
\* largest indentation of a line that is not blank, N the number of
\* declaration lines and L the line count of the most recently opened region
\* only, up to and including its closing line; without a declaration line the
\* second term is 0.
C22_Complexity ==
    Scored /\ code_content # <<>> =>
        /\ IsComplexityScore(ret.details.complexity, MaxIndent, LastRegionLines(FALSE),
                             Cardinality(Declarations))
        /\ Declarations = {} => ret.details.complexity = R(5 * MaxIndent)

\* two regions of one line each, the second indented by four: the score is
\* 20 + (1 / 2) / 5
C22_Witness ==
    /\ Scored
    /\ Len(ScoredLines) = 2
    /\ Declarations = {1, 2}
    /\ MaxIndent = 4
    /\ LastRegionLines(FALSE) = 1
    /\ ret.details.complexity = <<201, 10>>

\* a region closed by a return with a value, and a line after it that is not
\* counted
C22_ClosedRegion ==
    /\ Scored
    /\ Len(ScoredLines) = 3
    /\ Declarations = {1}
    /\ Closes(ScoredLines[2], FALSE)
    /\ LastRegionLines(FALSE) = 2
    /\ ret.details.complexity = <<2, 5>>

(***************************************************************************)
(* Properties of the duplication and documentation categories              *)
(***************************************************************************)
\* the lines whose trimmed text is longer than 10 characters and is the
\* trimmed text of an earlier line
Duplicates ==
    {n \in DOMAIN ScoredLines :
        /\ Len(Strip(ScoredLines[n])) > 10
        /\ \E m \in 1..(n - 1) : Strip(ScoredLines[m]) = Strip(ScoredLines[n])}

\* C23: for a non-empty text the duplication score equals
\* min(100, duplicate_count / total_lines * 200), duplicate_count being the
\* number of lines whose trimmed text is longer than 10 characters and equals
\* the trimmed text of an earlier line, total_lines counting every line; a
\* text without such a line scores 0.
C23_Duplication ==
    Scored /\ code_content # <<>> =>
        /\ IF 2 * Cardinality(Duplicates) >= Len(ScoredLines)
           THEN ret.details.duplication = <<100, 1>>
           ELSE ret.details.duplication[1] * Len(ScoredLines)
                    = 200 * Cardinality(Duplicates) * ret.details.duplication[2]
        /\ Duplicates = {} => ret.details.duplication = <<0, 1>>

\* a line of eleven characters, the same line indented, and a blank line:
\* one duplicate in three lines
C23_Witness ==
    /\ Scored
    /\ Len(ScoredLines) = 3
    /\ Duplicates = {2}
    /\ ScoredLines[2] # ScoredLines[1]
    /\ ScoredLines[3] = <<>>
    /\ ret.details.duplication = <<200, 3>>

\* a text occurring three times counts two duplicates
C23_ThreeTimes ==
    /\ Scored
    /\ Len(ScoredLines) = 4
    /\ Duplicates = {2, 3}
    /\ ret.details.duplication = <<100, 1>>

\* a repeated line of ten characters is no duplicate
C23_ShortRepeated ==
    /\ Scored
    /\ Len(ScoredLines) = 2
    /\ ScoredLines[1] = ScoredLines[2]
    /\ Len(ScoredLines[1]) = 10
    /\ ret.details.duplication = <<0, 1>>

\* the lines whose trimmed text starts with #, // or /*
CommentLines ==
    {n \in DOMAIN ScoredLines :
        \E mark \in { <<"#">>, <<"/", "/">>, <<"/", "*">> } :
            StartsWith(Strip(ScoredLines[n]), mark)}

\* the lines whose trimmed text starts with a triple-quote marker
DocstringLines ==
    {n \in DOMAIN ScoredLines :
        \E mark \in { <<"\"", "\"", "\"">>, <<"'", "'", "'">> } :
            StartsWith(Strip(ScoredLines[n]), mark)}

\* C24: for a non-empty text the documentation score equals
\* (1 - comment_count / total_lines) * 100, multiplied by 0.7 exactly once
\* when at least one line starts with a triple-quote marker; a text in which
\* every line is a comment scores 0.
C24_Documentation ==
    Scored /\ code_content # <<>> =>
        /\ IF DocstringLines = {}
           THEN ret.details.documentation[1] * Len(ScoredLines)
                    = 100 * (Len(ScoredLines) - Cardinality(CommentLines))
                      * ret.details.documentation[2]
           ELSE ret.details.documentation[1] * Len(ScoredLines)
                    = 70 * (Len(ScoredLines) - Cardinality(CommentLines))
                      * ret.details.documentation[2]
        /\ CommentLines = DOMAIN ScoredLines => ret.details.documentation = <<0, 1>>

\* two docstring lines and a comment: (1 - 1/3) * 100 * 0.7
C24_Witness ==
    /\ Scored
    /\ Len(ScoredLines) = 3
    /\ Cardinality(DocstringLines) = 2
    /\ Cardinality(CommentLines) = 1
    /\ ret.details.documentation = <<140, 3>>

\* every line is a comment, of the three kinds
C24_AllComments ==
    /\ Scored
    /\ Len(ScoredLines) = 3
    /\ CommentLines = {1, 2, 3}
    /\ Cardinality({ScoredLines[n] : n \in 1..3}) = 3
    /\ ret.details.documentation = <<0, 1>>

(***************************************************************************)
(* Properties of run_static_analysis with failing linters                  *)
(***************************************************************************)
Returned == pc = "returned"

\* what the pattern scanner reports for the text and the path's extension
ScannerIssues == basic_pattern_analysis(code_content, PassExtension)

\* a linter of the file's type is not installed or printed what json.loads
\* rejects, or printed a value that is not a record
LinterFailed ==
    \E tool \in ToolsFor(file_path) :
        \/ linters[tool] = Failing
        \/ \E k \in DOMAIN linters[tool].items : linters[tool].items[k].type # "dict"

C25_NoLinter ==
    /\ Returned
    /\ ToolsFor(file_path) = {}
    /\ ScannerIssues # <<>>
    /\ ret.value = ScannerIssues

\* pylint printed a record, flake8 failed, and the scanner's issue follows
\* pylint's
C25_AfterLinterIssues ==
    /\ Returned
    /\ linters.flake8 = Failing
    /\ Len(linters.pylint.items) = 1
    /\ ScannerIssues # <<>>
    /\ Len(ret.value) = 1 + Len(ScannerIssues)

(***************************************************************************)
(* Properties of the dashboard session                                     *)
(***************************************************************************)
Reran == ret.kind = "rerun"

\* C26: an analysis pass runs only in a state where authenticated is true,
\* current_repo and current_pr are set and analysis_results is None; a
\* completed pass leaves analysis_results populated, and then no pass runs
\* until a Run Analysis click is accepted; an accepted click resets
\* analysis_results to None and feedback_submitted to False before the pass
\* that follows it.
C26_PassLifecycle ==
    Reran =>
        /\ ret.ran =>
              /\ ret.entry.authenticated
              /\ ret.entry.current_repo # None /\ ret.entry.current_pr # None
              /\ ret.entry.analysis_results = NoResults
        /\ ret.completed => ret.ran /\ session.analysis_results # NoResults
        /\ ret.before.analysis_results # NoResults /\ ~ret.accepted => ~ret.ran
        /\ ret.accepted =>
              /\ ret.entry.analysis_results = NoResults
              /\ ~ret.entry.feedback_submitted
              /\ ret.ran

\* after a completed pass and submitted feedback, an accepted click reset
\* both and the next pass ran
C26_Witness ==
    /\ Reran
    /\ ret.accepted
    /\ ret.before.analysis_results # NoResults
    /\ ret.before.feedback_submitted
    /\ ret.ran /\ ret.completed
    /\ session.analysis_results # NoResults
    /\ ~session.feedback_submitted

\* a rerun without a click on a session with results ran no pass
C26_NoSecondPass ==
    /\ Reran
    /\ ret.event = "none"
    /\ ret.before.analysis_results # NoResults
    /\ ~ret.ran

\* a pass that did not complete runs again on the next rerun
C26_Retried ==
    /\ Reran
    /\ ret.event = "none"
    /\ ShowsTabs(ret.before)
    /\ ret.ran

(***************************************************************************)
(* Properties of the pass over several files                               *)
(***************************************************************************)
Results == session.analysis_results

\* the files named by the stored issues
IssueFiles == {Results.issues[k].file : k \in DOMAIN Results.issues}

\* the pass skipped the file: more than 1000 changes, no patch, an extension
\* that is not supported, content that is empty or not available
WasSkipped(file) ==
    \/ "changes" \in DOMAIN file /\ file.changes > 1000
    \/ "patch" \notin DOMAIN file
    \/ file.patch = ""
    \/ \A k \in DOMAIN supported_extensions : ~EndsWith(file.filename, supported_extensions[k])
    \/ ~file.available
    \/ file.content = <<>>

SkippedFiles ==
    {response.files_data[k].filename :
        k \in {j \in DOMAIN response.files_data : WasSkipped(response.files_data[j])}}

\* C27: after a completed pass the file names keyed in tech_debt_scores are
\* those keyed in code_contents, every stored issue names one of them, and a
\* skipped file has no score, no content entry and no issue.
C27_StoredFilesAgree ==
    Analysed /\ response.kind = "files" =>
        /\ DOMAIN Results.tech_debt_scores = DOMAIN Results.code_contents
        /\ IssueFiles \subseteq DOMAIN Results.code_contents
        /\ \A f \in SkippedFiles :
              /\ f \notin DOMAIN Results.tech_debt_scores
              /\ f \notin DOMAIN Results.code_contents
              /\ f \notin IssueFiles

\* a pull request of an analysed file, a file with empty content and a file
\* of an extension that is not supported
C27_Witness ==
    /\ Analysed /\ response.kind = "files"
    /\ Len(response.files_data) = 3
    /\ Cardinality(SkippedFiles) = 2
    /\ \E k \in 1..3 : /\ response.files_data[k].available
                       /\ response.files_data[k].content = <<>>
                       /\ "patch" \in DOMAIN response.files_data[k]
                       /\ response.files_data[k].patch = "p"
                       /\ response.files_data[k].changes = 5
                       /\ is_supported(response.files_data[k].filename)
    /\ Cardinality(DOMAIN Results.tech_debt_scores) = 1
    /\ IssueFiles = DOMAIN Results.tech_debt_scores

\* two files were analysed and both have issues
C27_TwoFiles ==
    /\ Analysed /\ response.kind = "files"
    /\ SkippedFiles = {}
    /\ Cardinality(IssueFiles) = 2

(***************************************************************************)
(* Properties of the data directory                                        *)
(***************************************************************************)
Loaded == ret.kind = "loaded"

\* the mean of the overall scores of the saved results is the rational avg
IsMeanOverall(avg) ==
    IF "tech_debt_scores" \notin DOMAIN ret.results THEN avg = <<0, 1>>
    ELSE \E sum \in {SumOverall(ret.results.tech_debt_scores,
                                DOMAIN ret.results.tech_debt_scores)} :
            avg[1] * sum[2] * Cardinality(DOMAIN ret.results.tech_debt_scores)
                = sum[1] * avg[2]

\* the list holds an entry for the saved analysis
HoldsSaved(entries) ==
    \E k \in DOMAIN entries :
        /\ entries[k].repo = ret.repo
        /\ entries[k].pr_number = ret.pr_number
        /\ entries[k].date = isoformat(ret.before.now)
        /\ entries[k].issue_count = Len(ret.results.issues)
        /\ IsMeanOverall(entries[k].tech_debt_avg)

\* every entry the load would have returned before the save is returned
HoldsEarlier(entries) ==
    \A j \in DOMAIN ret.earlier : \E k \in DOMAIN entries : entries[k] = ret.earlier[j]

\* C28: after save_analysis_results(repo, pr_number, results) returned True,
\* load_previous_analyses(repo) returns a list with an entry of that repo
\* and pr_number whose issue_count is the number of issues of results and
\* whose tech_debt_avg is the mean of the overall scores (0.0 without
\* scores), and with every entry that was in the summary before the save.
C28_SavedIsLoaded ==
    Loaded /\ ret.value => HoldsSaved(ret.loaded) /\ HoldsEarlier(ret.loaded)

\* what the code keeps: the same, when the summary file was written
C28_LoadedWhenSummaryWritten ==
    Loaded /\ ret.value /\ session.summary.state = "list"
           /\ session.summary # ret.before.summary
        => HoldsSaved(ret.loaded) /\ HoldsEarlier(ret.loaded)

\* the save returned True, the summary was not written, and the load does
\* not return the saved analysis
C28_ReturnedTrueUnsaved ==
    /\ Loaded /\ ret.value
    /\ session.summary = ret.before.summary
    /\ ret.earlier # <<>>
    /\ ret.loaded = ret.earlier
    /\ ~HoldsSaved(ret.loaded)

\* a second analysis of two files was saved and loaded with the first
C28_SecondSaved ==
    /\ Loaded /\ ret.value
    /\ Len(ret.earlier) = 1
    /\ Len(ret.loaded) = 2
    /\ ret.loaded[1].tech_debt_avg = <<55, 2>>
    /\ ret.loaded[1].issue_count = 2
    /\ ret.loaded[2] = ret.earlier[1]

Deleted == ret.kind = "deleted"

\* the cutoff of the call: now minus days
Cutoff == <<ret.before.now[1] - ret.days, ret.before.now[2]>>

\* the times the clock can show
Times == {<<d, p>> : d \in 0..(FirstDay + MaxDeleteSteps + 1), p \in {0, 5}}

\* the date is the text of a time earlier than the cutoff
EarlierThanCutoff(date) == \E t \in Times : isoformat(t) = date /\ TimeLess(t, Cutoff)

\* C29: delete_old_data(days) never deletes analysis_summary.json, deletes a
\* feedback or analysis file only if its modification time is earlier than
\* the cutoff, and when it returns True the summary holds exactly the
\* entries it held before whose date is not earlier than the cutoff, in
\* their previous order.
C29_DeleteOldData ==
    Deleted =>
        /\ ret.before.summary.state # "absent" => session.summary.state # "absent"
        /\ session.files \subseteq ret.before.files
        /\ \A f \in ret.before.files \ session.files : TimeLess(f.mtime, Cutoff)
        /\ ret.value /\ ret.before.summary.state = "list" =>
              /\ session.summary.state = "list"
              /\ session.summary.entries
                    = SelectSeq(ret.before.summary.entries,
                                LAMBDA e : ~EarlierThanCutoff(e.date))

\* a call that deleted an old file and an old entry and kept an entry dated
\* at the cutoff and one dated after it
C29_Witness ==
    /\ Deleted /\ ret.value
    /\ ret.before.files \ session.files # {}
    /\ Len(ret.before.summary.entries) = 3
    /\ Len(session.summary.entries) = 2
    /\ session.summary.entries[1].date = isoformat(Cutoff)
    /\ session.summary.entries[2].date # isoformat(Cutoff)

\* a call that deleted a feedback file and kept the summary file
C29_FeedbackDeleted ==
    /\ Deleted
    /\ \E f \in ret.before.files \ session.files : f.kind = "feedback"
    /\ session.summary.state = "list"

(***************************************************************************)
(* Properties of the scorer on two issue lists                             *)
(***************************************************************************)
\* the number of records of the list that have the severity
HavingIn(issue_list, severity) ==
    Cardinality({k \in DOMAIN issue_list :
                    /\ "severity" \in DOMAIN issue_list[k]
                    /\ issue_list[k].severity = severity})

\* the second list is the first with one record appended
SecondAppends == Len(session) = Len(issues) + 1 /\ SubSeq(session, 1, Len(issues)) = issues

\* the two lists have as many errors, as many warnings and as many infos
SameCounts ==
    \A severity \in {"error", "warning", "info"} :
        HavingIn(issues, severity) = HavingIn(session, severity)

\* C30: for a fixed non-empty text and path, appending an issue to the issue
\* list never decreases the code_smells score or the overall score, and two
\* issue lists with the same numbers of errors, warnings and infos get the
\* same code_smells score and the same overall score, whatever the order of
\* the issues and their other fields.
C30_MonotoneInIssues ==
    Scored /\ code_content # <<>> =>
        /\ SecondAppends =>
              /\ RLe(ret.first.details.code_smells, ret.second.details.code_smells)
              /\ RLe(ret.first.overall, ret.second.overall)
        /\ SameCounts =>
              /\ ret.first.details.code_smells = ret.second.details.code_smells
              /\ ret.first.overall = ret.second.overall

\* a warning appended to an info on five lines raises both scores
C30_Witness ==
    /\ Scored
    /\ Len(splitlines(code_content)) = 5
    /\ SecondAppends
    /\ Len(issues) = 1
    /\ HavingIn(issues, "info") = 1
    /\ HavingIn(session, "warning") = 1
    /\ ret.first.details.code_smells = <<20, 1>>
    /\ ret.second.details.code_smells = <<60, 1>>
    /\ ~RLe(ret.second.overall, ret.first.overall)

\* the same counts in another order and with other fields
C30_Reordered ==
    /\ Scored
    /\ code_content # <<>>
    /\ SameCounts
    /\ Len(issues) = 2 /\ Len(session) = 2
    /\ issues[1] # session[2] /\ issues[2] # session[1] /\ issues # session
    /\ HavingIn(issues, "error") = 1 /\ HavingIn(issues, "info") = 1
    /\ ret.first = ret.second

=============================================================================
